---- MODULE Spec2Model ----
(***************************************************************************)
(* A model of the image-pull-secrets provisioner: the ServiceAccount       *)
(* reconciler (R1, serviceaccount_controller.go), the evictor (R2), the    *)
(* config helpers (config.go) and the cluster objects they read and write. *)
(*                                                                         *)
(* Strings are TLA+ strings; names are built and cut as the code does it.  *)
(* Time is counted in units of 30 seconds; 0 is Go's zero time.Time, and   *)
(* the clock starts at 1.                                                  *)
(***************************************************************************)
EXTENDS Integers, Sequences, FiniteSets, TLC

(***************************************************************************)
(* Bounds of the model.                                                    *)
(***************************************************************************)
\* the clock runs from 1 to MaxTime
MaxTime == 5
\* number of credentials the providers hand out in one run
MaxTokens == 3
\* number of changes the other actors (operators, kubelet) make in one run
MaxExt == 2
\* number of calls the API server and the providers fail or refuse in one run
MaxFaults == 1

(***************************************************************************)
(* Program constants.                                                      *)
(***************************************************************************)
\* time.Minute, in units of 30 seconds
expirationGracePeriod == 2
\* validation.DNS1123SubdomainMaxLength
DNS1123SubdomainMaxLength == 253

annotationKeyRegistry == "imagepullsecrets.preferred.jp/registry"
annotationKeyAudience == "imagepullsecrets.preferred.jp/audience"
annotationKeyAWSRoleARN == "imagepullsecrets.preferred.jp/aws-role-arn"
annotationKeyGoogleWIDP == "imagepullsecrets.preferred.jp/googlecloud-workload-identity-provider"
annotationKeyGoogleSA == "imagepullsecrets.preferred.jp/googlecloud-service-account-email"
annotationKeySecretName == "imagepullsecrets.preferred.jp/secret-name"

(***************************************************************************)
(* Strings.                                                                *)
(***************************************************************************)
Min(a, b) == IF a < b THEN a ELSE b

\* s[:n]
Prefix(s, n) == SubSeq(s, 1, Min(n, Len(s)))

\* position of the first sep (one character) in s at or after from, 0 if none
RECURSIVE IndexFrom(_, _, _)
IndexFrom(s, sep, from) ==
    IF from > Len(s) THEN 0
    ELSE IF SubSeq(s, from, from) = sep THEN from
    ELSE IndexFrom(s, sep, from + 1)

\* strings.SplitN(s, sep, n) for a one-character sep and n >= 1
RECURSIVE SplitN(_, _, _)
SplitN(s, sep, n) ==
    LET p == IndexFrom(s, sep, 1) IN
    IF n = 1 \/ p = 0 THEN <<s>>
    ELSE <<SubSeq(s, 1, p - 1)>> \o SplitN(SubSeq(s, p + 1, Len(s)), sep, n - 1)

\* strings.Split(s, sep): no limit on the number of parts
Split(s, sep) == SplitN(s, sep, Len(s) + 1)

(***************************************************************************)
(* config.go                                                               *)
(***************************************************************************)
\* sa.Annotations[key]: the empty string when the key is absent
Annotation(s, key) == IF key \in DOMAIN s.ann THEN s.ann[key] ELSE ""

\* a check that takes the Google provider alone for a Google configuration
hasConfigWIDPOnly(s) ==
    IF Annotation(s, annotationKeyRegistry) = "" THEN FALSE
    ELSE IF Annotation(s, annotationKeyAudience) = "" THEN FALSE
    ELSE IF Annotation(s, annotationKeyAWSRoleARN) # "" THEN TRUE
    ELSE Annotation(s, annotationKeyGoogleWIDP) # ""

hasConfig(s) ==
    IF Annotation(s, annotationKeyRegistry) = "" THEN FALSE
    ELSE IF Annotation(s, annotationKeyAudience) = "" THEN FALSE
    ELSE IF Annotation(s, annotationKeyAWSRoleARN) # "" THEN TRUE
    ELSE IF Annotation(s, annotationKeyGoogleWIDP) # ""
         THEN Annotation(s, annotationKeyGoogleSA) # ""
    ELSE FALSE

secretName(s) ==
    IF annotationKeySecretName \in DOMAIN s.ann
    THEN s.ann[annotationKeySecretName]
    ELSE LET name == "imagepullsecret-" \o s.name IN
         IF Len(name) > DNS1123SubdomainMaxLength
         THEN Prefix(name, DNS1123SubdomainMaxLength)
         ELSE name

secretNameIndexed(s, idx) ==
    IF idx <= 0 THEN secretName(s)
    ELSE LET base == secretName(s)
             suffix == "-" \o ToString(idx)
         IN  IF Len(base) + Len(suffix) > DNS1123SubdomainMaxLength
             THEN Prefix(base, DNS1123SubdomainMaxLength - Len(suffix)) \o suffix
             ELSE base \o suffix

\* serviceAccountReconciler.resolveAccounts: nil is the empty sequence
resolveAccounts(s) ==
    IF Annotation(s, annotationKeyGoogleSA) # ""
    THEN Split(Annotation(s, annotationKeyGoogleSA), ",")
    ELSE IF Annotation(s, annotationKeyAWSRoleARN) # ""
    THEN Split(Annotation(s, annotationKeyAWSRoleARN), ",")
    ELSE <<>>

(***************************************************************************)
(* The cluster, the work queues and the two reconcilers.                   *)
(***************************************************************************)
VARIABLES
    now,       \* the wall clock
    sa,        \* the ServiceAccount (the principal) as the API server holds it
    secrets,   \* the Secrets of the namespace: name -> object
    pods,      \* the Pods of the namespace that use the ServiceAccount
    serial,    \* number of credentials the providers have issued
    ext,       \* number of changes made by other actors
    faults,    \* number of calls that were failed or refused
    r1,        \* the ServiceAccount reconciler's pass in flight
    r1Queue,   \* the ServiceAccount's key is in R1's work queue
    r1Timer,   \* instant of R1's pending delayed re-add, 0 if none
    r2,        \* the evictor's pass in flight
    r2Queue,   \* the ServiceAccount's key is in R2's work queue
    r2Timer,   \* R2 has a delayed re-add pending
    evictions  \* what the evictor's eviction calls met

vars == <<now, sa, secrets, pods, serial, ext, faults, r1, r1Queue, r1Timer,
          r2, r2Queue, r2Timer, evictions>>

\* the principal's name and uid
SAName == "sa"
SAUid == "uid-sa"

\* metav1.Time zero value / time.Time{}
ZeroTime == 0
IsZero(t) == t = ZeroTime

\* the annotation maps the principal is given in the model
GoogleOne ==
    (annotationKeyRegistry :> "eu-docker.pkg.dev") @@ (annotationKeyAudience :> "aud")
    @@ (annotationKeyGoogleWIDP :> "widp") @@ (annotationKeyGoogleSA :> "a")
GoogleTwo == (annotationKeyGoogleSA :> "a,b") @@ GoogleOne
GoogleNamed == (annotationKeySecretName :> "static") @@ GoogleOne
AWSOne ==
    (annotationKeyRegistry :> "9.dkr.ecr.us.amazonaws.com") @@ (annotationKeyAudience :> "sts")
    @@ (annotationKeyAWSRoleARN :> "r")
NoAnnotations == <<>>
Configs == {NoAnnotations, GoogleOne, GoogleTwo, GoogleNamed, AWSOne}

\* "imagepullsecrets.preferred.jp/expires-at" of a Secret: absent, or a string
\* that is an RFC 3339 instant
NoExpiresAt == [kind |-> "absent"]
\* a time.Time: whole seconds (in units of the model's clock) and whether a
\* fraction of a second comes on top
Instant(t, frac) == [t |-> t, frac |-> frac]
\* a layout that time.Parse(time.RFC3339, _) does not read
FormatRFC1123(x) == [kind |-> "text"]
\* expiresAt.Format(time.RFC3339): the layout has no fractional seconds
FormatRFC3339(x) == [kind |-> "rfc3339", t |-> x.t]
\* time.Parse(time.RFC3339, str)
ParseRFC3339(str) ==
    IF str.kind = "rfc3339" THEN [ok |-> TRUE, t |-> str.t] ELSE [ok |-> FALSE, t |-> ZeroTime]

\* time.Until(t)
Until(t) == t - now

\* the access token a provider returns: the id-th one it issued, good for
\* the account it was asked for (id 0: a credential that is not a provider's)
AccessToken(id, account) == [id |-> id, account |-> account]

(***************************************************************************)
(* image_pull_secret.go                                                    *)
(***************************************************************************)
buildImagePullSecret(serviceAccount, name, registry, username, password, expiresAt) ==
    [ name      |-> name,
      uid       |-> "",
      label     |-> serviceAccount.name,
      expiresAt |-> FormatRFC3339(expiresAt),
      owner     |-> serviceAccount.uid,
      type      |-> "kubernetes.io/dockerconfigjson",
      data      |-> [registry |-> registry, username |-> username, password |-> password] ]

(***************************************************************************)
(* Objects and helpers.                                                    *)
(***************************************************************************)
Range(f) == {f[x] : x \in DOMAIN f}

\* a ServiceAccount object that was never read
EmptySA == [name |-> SAName, uid |-> "", exists |-> FALSE, deleting |-> FALSE,
            ann |-> <<>>, ips |-> <<>>]

\* a Secret object that was never built
EmptySecret == buildImagePullSecret(EmptySA, "", "", "", AccessToken(0, ""),
                                    Instant(ZeroTime, 0))

\* client.List with MatchingLabels{labelKeyServiceAccount: name}: the names found
LabeledFor(name) == {n \in DOMAIN secrets : secrets[n].label = name}

\* one call or event of a pass, for the record of what the pass did
Op(op, name) == [op |-> op, name |-> name]

\* a pass of R1: where it is (pc), the ServiceAccount object it holds (sa), the
\* account index (i), the locals of provisionSecretForAccount (exp, desired,
\* newExp), requeueAt, the cleanup targets and those still to delete, and for
\* the record: the calls and events so far (ops), the ServiceAccount as loaded
\* (start), the names labeled for it at that moment (labeled), and the account
\* index at which the pass before this one failed, kept until this pass has
\* decided on that account, or the mark of a failed delete of the cleanup
\* (aborted, -1 otherwise)
R1Idle == [pc |-> "idle", sa |-> EmptySA, i |-> 0, exp |-> ZeroTime,
           desired |-> EmptySecret, newExp |-> ZeroTime, newFrac |-> 0,
           requeueAt |-> ZeroTime,
           targets |-> {}, left |-> {}, ops |-> <<>>, start |-> EmptySA,
           labeled |-> {}, aborted |-> -1]

(***************************************************************************)
(* serviceaccount_controller.go                                            *)
(***************************************************************************)
\* a check that always finds the name
imagePullSecretAttachedAlways(s, name) == TRUE

imagePullSecretAttached(s, name) == \E k \in 1..Len(s.ips) : s.ips[k] = name

\* a decision that regenerates whatever it finds
shouldCreateOrRefreshAlways(s, name) ==
    IF ~hasConfig(s) THEN [should |-> FALSE, exp |-> ZeroTime]
    ELSE [should |-> TRUE, exp |-> ZeroTime]

\* the decision with the grace period compared by <= in place of <
shouldCreateOrRefreshAtGrace(s, name) ==
    IF ~hasConfig(s) THEN [should |-> FALSE, exp |-> ZeroTime]
    ELSE IF name \notin DOMAIN secrets THEN [should |-> TRUE, exp |-> ZeroTime]
    ELSE IF ~imagePullSecretAttached(s, secrets[name].name)
         THEN [should |-> TRUE, exp |-> ZeroTime]
    ELSE LET parsed == ParseRFC3339(secrets[name].expiresAt) IN
         IF ~parsed.ok THEN [should |-> TRUE, exp |-> ZeroTime]
         ELSE IF Until(parsed.t) <= expirationGracePeriod
              THEN [should |-> TRUE, exp |-> parsed.t]
         ELSE [should |-> FALSE, exp |-> parsed.t]

\* the decision of shouldCreateOrRefreshImagePullSecret once its Get has
\* answered: [should, exp]
shouldCreateOrRefreshImagePullSecret(s, name) ==
    IF ~hasConfig(s) THEN [should |-> FALSE, exp |-> ZeroTime]
    ELSE IF name \notin DOMAIN secrets THEN [should |-> TRUE, exp |-> ZeroTime]
    ELSE IF ~imagePullSecretAttached(s, secrets[name].name)
         THEN [should |-> TRUE, exp |-> ZeroTime]
    ELSE LET parsed == ParseRFC3339(secrets[name].expiresAt) IN
         IF ~parsed.ok THEN [should |-> TRUE, exp |-> ZeroTime]
         ELSE IF Until(parsed.t) < expirationGracePeriod
              THEN [should |-> TRUE, exp |-> parsed.t]
         ELSE [should |-> FALSE, exp |-> parsed.t]

\* Reconcile's loop body after provisionSecretForAccount returned exp
earlier(requeueAt, exp) ==
    IF ~IsZero(exp) /\ (IsZero(requeueAt) \/ exp < requeueAt) THEN exp ELSE requeueAt

\* a loop that stops after the first account
afterFirstAccount(p) == "list"

\* where the pass goes after account i: the next account, or the cleanup
afterAccount(p) == IF p.i + 1 < Len(resolveAccounts(p.sa)) THEN "decide" ELSE "list"

\* awsImpl.ExtractRegion
ExtractRegion(registry) ==
    LET parts == SplitN(registry, ".", 5) IN
    IF Len(parts) # 5 THEN [ok |-> FALSE, region |-> ""] ELSE [ok |-> TRUE, region |-> parts[4]]

\* the provider generateAccessToken turns to
providerOf(s) ==
    IF Annotation(s, annotationKeyAWSRoleARN) # "" THEN "aws"
    ELSE IF Annotation(s, annotationKeyGoogleWIDP) # "" THEN "google"
    ELSE "none"

\* only the first account's name is kept
namesInUseFirstOnly(s) == IF hasConfig(s) THEN {secretNameIndexed(s, 0)} ELSE {}

\* the names listImagePullSecretsToCleanup keeps
namesInUse(s) ==
    IF hasConfig(s)
    THEN {secretNameIndexed(s, i - 1) : i \in 1..Len(resolveAccounts(s))}
    ELSE {}

\* a cleanup that finds nothing to do
listNoImagePullSecrets(s) == {}

listImagePullSecretsToCleanup(s) == {n \in LabeledFor(s.name) : n \notin namesInUse(s)}

\* the filter of detachImagePullSecret turned around
retainedTargets(s, targets) == SelectSeq(s.ips, LAMBDA n : n \in targets)

\* the list detachImagePullSecret computes
retained(s, targets) == SelectSeq(s.ips, LAMBDA n : n \notin targets)

(***************************************************************************)
(* The API server and the runtime, as the reconcilers meet them.           *)
(***************************************************************************)
\* the validities (expiry minus now) the providers answer with: shorter than
\* the grace period, or longer
MaxValidity == 3
Validities == {1, MaxValidity}
\* the expiry a provider answers is a whole second or has a fraction: Google's
\* expireTime is parsed with its fraction, the ECR SDK hands a time.Time
Fractions == {0, 1}

\* the uid the API server gives a Secret it creates
SecretUid(name) == "uid-" \o name

\* client.StrategicMergeFrom(orig) carries no resourceVersion, and
\* imagePullSecrets of a ServiceAccount is an atomic list: a patch that changes
\* it carries the whole list of the object the pass holds, and the server puts
\* it in place of its own.  ips is the list of the object the pass holds.
\* the list after sa.ImagePullSecrets = append(sa.ImagePullSecrets, name)
PatchAdd(ips, name) == Append(ips, name)

\* a patch that takes one of the names out and leaves the others
PatchDeleteOne(ips, gone) ==
    SelectSeq(ips, LAMBDA n : n # (CHOOSE g \in gone : TRUE))

\* the list after sa.ImagePullSecrets = retained, gone being the names left out
PatchDelete(ips, gone) == SelectSeq(ips, LAMBDA n : n \notin gone)

\* the watches: a changed ServiceAccount is queued for R1 (For(&ServiceAccount{}))
\* and, when the new object passes the hasConfig predicate, for R2
Queued1(q, new) == q \/ new # sa
Queued2(q, new) == q \/ (new # sa /\ new.exists /\ hasConfig(new))

\* a call is answered with an error, or refused
Fault ==
    /\ faults < MaxFaults
    /\ faults' = faults + 1

\* a failure after which the pass goes on to the cleanup
R1FailsOn(ops) ==
    /\ Fault
    /\ r1' = [r1 EXCEPT !.pc = "list", !.ops = ops]
    /\ UNCHANGED r1Queue

\* a call failed and Reconcile is about to return the error
R1Fails(ops) ==
    /\ Fault
    /\ r1' = [r1 EXCEPT !.pc = "failed", !.ops = ops]
    /\ UNCHANGED r1Queue

\* workqueue.AddAfter: an earlier pending instant stays
AddAfter(timer, at) == IF timer # ZeroTime /\ timer < at THEN timer ELSE at

\* the delayed re-add is due: the delay has elapsed and the clock has moved on
Due(timer) == timer # ZeroTime /\ now > timer

(***************************************************************************)
(* serviceAccountReconciler.Reconcile, one action per call it waits for.   *)
(***************************************************************************)
\* a start of the pass that does not look at the deletion timestamp
R1StartOnTerminating ==
    /\ r1.pc = "idle"
    /\ r1Queue \/ Due(r1Timer)
    /\ r1Timer' = IF Due(r1Timer) THEN ZeroTime ELSE r1Timer
    /\ r1Queue' = FALSE
    /\ UNCHANGED <<now, sa, secrets, pods, serial, ext, r2, r2Queue, r2Timer, evictions>>
    /\ \/ /\ Fault
          /\ r1' = [R1Idle EXCEPT !.pc = "failed", !.aborted = r1.aborted]
       \/ /\ ~sa.exists
          /\ UNCHANGED faults
          /\ r1' = [R1Idle EXCEPT !.pc = "finish", !.start = sa,
                                  !.labeled = LabeledFor(sa.name),
                                  !.aborted = r1.aborted]
       \/ /\ sa.exists
          /\ UNCHANGED faults
          /\ r1' = [R1Idle EXCEPT !.sa = sa, !.start = sa,
                       !.labeled = LabeledFor(sa.name),
                       !.aborted = r1.aborted,
                       !.pc = IF hasConfig(sa) /\ Len(resolveAccounts(sa)) > 0
                              THEN "decide" ELSE "list"]

\* r.Get of the ServiceAccount, and the checks before the loop
R1Start ==
    /\ r1.pc = "idle"
    /\ r1Queue \/ Due(r1Timer)
    /\ r1Timer' = IF Due(r1Timer) THEN ZeroTime ELSE r1Timer
    /\ r1Queue' = FALSE
    /\ UNCHANGED <<now, sa, secrets, pods, serial, ext, r2, r2Queue, r2Timer, evictions>>
    /\ \/ /\ Fault
          /\ r1' = [R1Idle EXCEPT !.pc = "failed", !.aborted = r1.aborted]
       \/ /\ ~sa.exists \/ sa.deleting
          /\ UNCHANGED faults
          /\ r1' = [R1Idle EXCEPT !.pc = "finish", !.start = sa,
                                  !.labeled = LabeledFor(sa.name),
                                  !.aborted = r1.aborted]
       \/ /\ sa.exists /\ ~sa.deleting
          /\ UNCHANGED faults
          /\ r1' = [R1Idle EXCEPT !.sa = sa, !.start = sa,
                       !.labeled = LabeledFor(sa.name),
                       !.aborted = r1.aborted,
                       !.pc = IF hasConfig(sa) /\ Len(resolveAccounts(sa)) > 0
                              THEN "decide" ELSE "list"]

\* provisionSecretForAccount up to the decision
R1Decide ==
    /\ r1.pc = "decide"
    /\ UNCHANGED <<now, sa, secrets, pods, serial, ext, r1Timer, r2, r2Queue, r2Timer, evictions>>
    /\ LET name == secretNameIndexed(r1.sa, r1.i)
           d == shouldCreateOrRefreshImagePullSecret(r1.sa, name)
           ops == Append(r1.ops, Op("get", name))
       IN  \/ R1Fails(ops)
           \/ /\ d.should
              /\ r1' = [r1 EXCEPT !.pc = "generate", !.exp = d.exp, !.ops = ops,
                                  !.aborted = IF r1.i < @ THEN @ ELSE -1]
              /\ UNCHANGED <<r1Queue, faults>>
           \/ /\ ~d.should
              /\ r1' = [r1 EXCEPT !.pc = afterAccount(r1), !.i = @ + 1, !.ops = ops,
                                  !.requeueAt = earlier(@, d.exp),
                                  !.aborted = IF r1.i < @ THEN @ ELSE -1]
              /\ UNCHANGED <<r1Queue, faults>>

\* generateAccessToken and buildImagePullSecret
R1Generate ==
    /\ r1.pc = "generate"
    /\ UNCHANGED <<now, sa, secrets, pods, ext, r1Timer, r2, r2Queue, r2Timer, evictions>>
    /\ LET name == secretNameIndexed(r1.sa, r1.i)
           account == resolveAccounts(r1.sa)[r1.i + 1]
           registry == Annotation(r1.sa, annotationKeyRegistry)
           failed == Op("FailedProvisioningImagePullSecret", name)
           token == Append(r1.ops, Op("token", account))
           called == Append(token, Op(providerOf(r1.sa), account))
       IN  \/ /\ R1Fails(Append(token, failed))
              /\ UNCHANGED serial
           \/ /\ \/ providerOf(r1.sa) = "none"
                 \/ (providerOf(r1.sa) = "aws" /\ ~ExtractRegion(registry).ok)
              /\ r1' = [r1 EXCEPT !.pc = "failed", !.ops = Append(token, failed)]
              /\ UNCHANGED <<serial, r1Queue, faults>>
           \/ /\ \/ providerOf(r1.sa) = "google"
                 \/ (providerOf(r1.sa) = "aws" /\ ExtractRegion(registry).ok)
              /\ \/ /\ R1Fails(Append(called, failed))
                    /\ UNCHANGED serial
                 \/ /\ serial < MaxTokens
                    /\ serial' = serial + 1
                    /\ \E v \in Validities, f \in Fractions :
                         r1' = [r1 EXCEPT
                                  !.pc = "ensure", !.ops = called, !.newExp = now + v,
                                  !.newFrac = f,
                                  !.desired = buildImagePullSecret(
                                      r1.sa, name, registry,
                                      IF providerOf(r1.sa) = "aws" THEN "AWS"
                                      ELSE "oauth2accesstoken",
                                      AccessToken(serial + 1, account),
                                      Instant(now + v, f))]
                    /\ UNCHANGED <<r1Queue, faults>>

\* ensureSecret
R1Ensure ==
    /\ r1.pc = "ensure"
    /\ UNCHANGED <<now, sa, pods, serial, ext, r1Timer, r2, r2Queue, r2Timer, evictions>>
    /\ LET name == r1.desired.name
           failed == Op("FailedProvisioningImagePullSecret", name)
       IN  \/ /\ R1Fails(Append(r1.ops, failed))
              /\ UNCHANGED secrets
           \/ /\ name \notin DOMAIN secrets
              /\ secrets' = (name :> [r1.desired EXCEPT !.uid = SecretUid(name)]) @@ secrets
              /\ r1' = [r1 EXCEPT !.pc = "attach", !.ops = Append(@, Op("create", name))]
              /\ UNCHANGED <<r1Queue, faults>>
           \/ /\ name \in DOMAIN secrets
              /\ IF secrets[name] # r1.desired
                 THEN /\ secrets' = [secrets EXCEPT
                                       ![name] = [r1.desired EXCEPT !.uid = secrets[name].uid]]
                      /\ r1' = [r1 EXCEPT !.pc = "attach",
                                          !.ops = Append(@, Op("patch", name))]
                 ELSE /\ UNCHANGED secrets
                      /\ r1' = [r1 EXCEPT !.pc = "attach"]
              /\ UNCHANGED <<r1Queue, faults>>

\* attachImagePullSecret, and the rest of provisionSecretForAccount
R1Attach ==
    /\ r1.pc = "attach"
    /\ UNCHANGED <<now, secrets, pods, serial, ext, r1Timer, r2, r2Timer, evictions>>
    /\ LET name == r1.desired.name
           exp == IF ~IsZero(r1.newExp) THEN r1.newExp ELSE r1.exp
           done == Op("ProvisionedImagePullSecret", name)
           failed == Op("FailedProvisioningImagePullSecret", name)
           patched == [sa EXCEPT !.ips = PatchAdd(r1.sa.ips, name)]
       IN  \/ /\ imagePullSecretAttached(r1.sa, name)
              /\ r1' = [r1 EXCEPT !.pc = afterAccount(r1), !.i = @ + 1,
                                  !.ops = Append(@, done),
                                  !.requeueAt = earlier(@, exp),
                                  !.exp = ZeroTime, !.newExp = ZeroTime, !.newFrac = 0,
                                  !.desired = EmptySecret]
              /\ UNCHANGED <<sa, r1Queue, r2Queue, faults>>
           \/ /\ ~imagePullSecretAttached(r1.sa, name)
              /\ R1Fails(Append(Append(r1.ops, Op("patch-sa", name)), failed))
              /\ UNCHANGED <<sa, r2Queue>>
           \/ /\ ~imagePullSecretAttached(r1.sa, name)
              /\ sa.exists
              /\ sa' = patched
              /\ r1Queue' = Queued1(r1Queue, patched)
              /\ r2Queue' = Queued2(r2Queue, patched)
              /\ UNCHANGED faults
              /\ r1' = [r1 EXCEPT !.pc = afterAccount(r1), !.i = @ + 1, !.sa = patched,
                                  !.ops = Append(Append(@, Op("patch-sa", name)), done),
                                  !.requeueAt = earlier(@, exp),
                                  !.exp = ZeroTime, !.newExp = ZeroTime, !.newFrac = 0,
                                  !.desired = EmptySecret]

\* cleanupImagePullSecrets: the List and the choice of targets
R1List ==
    /\ r1.pc = "list"
    /\ UNCHANGED <<now, sa, secrets, pods, serial, ext, r1Timer, r2, r2Queue, r2Timer, evictions>>
    /\ LET targets == listImagePullSecretsToCleanup(r1.sa)
           failed == Op("FailedDecommissioningImagePullSecret", "")
           ops == Append(r1.ops, Op("list", ""))
       IN  \/ R1Fails(Append(ops, failed))
           \/ /\ r1' = [r1 EXCEPT !.pc = IF targets = {} THEN "finish" ELSE "detach",
                                  !.targets = targets, !.left = targets, !.ops = ops]
              /\ UNCHANGED <<r1Queue, faults>>

\* cleanupImagePullSecrets: detachImagePullSecret
R1Detach ==
    /\ r1.pc = "detach"
    /\ UNCHANGED <<now, secrets, pods, serial, ext, r1Timer, r2, r2Timer, evictions>>
    /\ LET gone == Range(r1.sa.ips) \ Range(retained(r1.sa, r1.targets))
           \* a patch without a difference changes nothing
           patched == IF gone = {} THEN sa
                      ELSE [sa EXCEPT !.ips = PatchDelete(r1.sa.ips, gone)]
           failed == Op("FailedDecommissioningImagePullSecret", "")
           ops == Append(r1.ops, Op("patch-sa", ""))
       IN  \/ /\ R1Fails(Append(ops, failed))
              /\ UNCHANGED <<sa, r2Queue>>
           \/ /\ sa.exists
              /\ sa' = patched
              /\ r1Queue' = Queued1(r1Queue, patched)
              /\ r2Queue' = Queued2(r2Queue, patched)
              /\ UNCHANGED faults
              /\ r1' = [r1 EXCEPT !.pc = "delete", !.sa = patched, !.ops = ops]

\* cleanupImagePullSecrets: r.Delete of the next target
R1Delete ==
    /\ r1.pc = "delete"
    /\ UNCHANGED <<now, sa, pods, serial, ext, r1Timer, r2, r2Queue, r2Timer, evictions>>
    /\ \E t \in r1.left :
         LET failed == Op("FailedDecommissioningImagePullSecret", "")
             ops == Append(r1.ops, Op("delete", t))
         IN  \/ /\ R1Fails(Append(ops, failed))
                /\ UNCHANGED secrets
             \* NotFound is an error like any other
             \/ /\ t \notin DOMAIN secrets
                /\ r1' = [r1 EXCEPT !.pc = "failed", !.ops = Append(ops, failed)]
                /\ UNCHANGED <<secrets, r1Queue, faults>>
             \/ /\ t \in DOMAIN secrets
                /\ secrets' = [n \in DOMAIN secrets \ {t} |-> secrets[n]]
                /\ r1' = [r1 EXCEPT
                            !.left = @ \ {t},
                            !.pc = IF r1.left = {t} THEN "finish" ELSE "delete",
                            !.ops = IF r1.left = {t}
                                    THEN Append(ops, Op("DecommissionedImagePullSecret", ""))
                                    ELSE ops]
                /\ UNCHANGED <<r1Queue, faults>>

\* the RequeueAfter of the ctrl.Result a pass that got to the end returns
RequeueAfter(p) ==
    IF ~IsZero(p.requeueAt) THEN Until(p.requeueAt - expirationGracePeriod) ELSE 0

\* the mark of a pass that failed at an r.Delete of the cleanup, after the
\* detach patch
AbortedInCleanup == -2

\* the account index at which pass p failed: the index it was at when a call of
\* provisionSecretForAccount failed; a pass that failed before the loop leaves
\* what it was retrying; a pass that failed at a delete of the cleanup leaves
\* the mark of that; -1 otherwise
AbortedAt(p) ==
    IF p.pc # "failed" THEN -1
    ELSE IF ~p.sa.exists THEN p.aborted
    ELSE IF hasConfig(p.sa) /\ p.i < Len(resolveAccounts(p.sa)) THEN p.i
    ELSE IF Len(p.ops) >= 2 /\ p.ops[Len(p.ops) - 1].op = "delete" THEN AbortedInCleanup
    ELSE -1

\* the return of Reconcile and what the runtime does with it: after an error
\* the key is added back (rate limited); a positive RequeueAfter is a delayed
\* re-add; anything else forgets the key
R1Finish ==
    /\ r1.pc \in {"finish", "failed"}
    /\ r1Queue' = (r1Queue \/ r1.pc = "failed")
    /\ r1Timer' = IF r1.pc = "finish" /\ RequeueAfter(r1) > 0
                  THEN AddAfter(r1Timer, now + RequeueAfter(r1)) ELSE r1Timer
    /\ r1' = [R1Idle EXCEPT !.aborted = AbortedAt(r1)]
    /\ UNCHANGED <<faults, now, sa, secrets, pods, serial, ext, r2, r2Queue, r2Timer, evictions>>

(***************************************************************************)
(* Pods.                                                                   *)
(***************************************************************************)
\* number of Pods that are created in one run; a Pod's name is never used twice
MaxPods == 2
PodIds == 1..MaxPods

\* what the kubelet reports for a Pod with one container: the phase and, per
\* container status, the reason of its waiting state ("" when not waiting)
StatusFailing == [phase |-> "Pending", initStatuses |-> <<>>, statuses |-> <<"ImagePullBackOff">>]
StatusCreating == [phase |-> "Pending", initStatuses |-> <<>>, statuses |-> <<"ContainerCreating">>]
StatusRunning == [phase |-> "Running", initStatuses |-> <<>>, statuses |-> <<"">>]
PodStatuses == {StatusFailing, StatusCreating, StatusRunning}

\* a Pod: state is "absent" (not created yet), "present" or "gone"
NoPod == [state |-> "absent", ips |-> <<>>, initContainers |-> 0, containers |-> 1,
          status |-> StatusRunning]

(***************************************************************************)
(* evictor.go                                                              *)
(***************************************************************************)
\* a check that never finds the secret
hasImagePullSecretNever(pod, secret) == FALSE

hasImagePullSecret(pod, secret) == \E k \in 1..Len(pod.ips) : pod.ips[k] = secret

\* a check that knows ErrImagePull only
isImagePullFailingErrOnly(pod) ==
    LET all == pod.status.initStatuses \o pod.status.statuses IN
    \E k \in 1..Len(all) : all[k] = "ErrImagePull"

\* outside of tests testing.Testing() is false
isImagePullFailing(pod) ==
    LET all == pod.status.initStatuses \o pod.status.statuses IN
    \E k \in 1..Len(all) : all[k] = "ErrImagePull" \/ all[k] = "ImagePullBackOff"

canFailImagePullLater(pod) ==
    LET all == pod.status.initStatuses \o pod.status.statuses IN
    IF pod.status.phase # "Pending" THEN FALSE
    ELSE IF \/ Len(pod.status.initStatuses) < pod.initContainers
            \/ Len(pod.status.statuses) < pod.containers
         THEN TRUE
    ELSE \E k \in 1..Len(all) : all[k] = "PodInitializing" \/ all[k] = "ContainerCreating"

\* client.List with MatchingFields{spec.serviceAccountName}, through a cache
\* that holds the Pending Pods only
ListedPods == {p \in PodIds : pods[p].state = "present" /\ pods[p].status.phase = "Pending"}

\* listPodsToEvict: the targets, and whether to look again later
podsToEvict(secret) ==
    {p \in ListedPods : ~hasImagePullSecret(pods[p], secret) /\ isImagePullFailing(pods[p])}

podsToRequeue(secret) ==
    \E p \in ListedPods :
        /\ ~hasImagePullSecret(pods[p], secret)
        /\ ~isImagePullFailing(pods[p])
        /\ canFailImagePullLater(pods[p])

\* a pass of R2: where it is (pc), the ServiceAccount it holds (sa), the name
\* getProvisionedImagePullSecret returned (secret), the targets still to evict
\* (left), whether result carries a RequeueAfter (requeue), the Pod whose
\* eviction error rerr holds (0 for nil), and for the record what each eviction
\* call of the pass met (log)
R2Idle == [pc |-> "idle", sa |-> EmptySA, secret |-> "", left |-> {},
           requeue |-> FALSE, rerr |-> 0, log |-> <<>>]

\* what an eviction call met, as the pass's events and log lines tell it
Met(p, result) == [pod |-> p, result |-> result]

\* what one eviction call met: whether the Pod carried the ServiceAccount's
\* first secret name, and whether that name was in the ServiceAccount's list
Eviction(p) ==
    LET s0 == secretNameIndexed(sa, 0) IN
    [hadSecret |-> \E k \in 1..Len(pods[p].ips) : pods[p].ips[k] = s0,
     attached |-> \E k \in 1..Len(sa.ips) : sa.ips[k] = s0]

\* e.Get of the ServiceAccount
R2Start ==
    /\ r2.pc = "idle"
    /\ r2Queue \/ r2Timer
    /\ r2Timer' = IF r2Queue THEN r2Timer ELSE FALSE
    /\ UNCHANGED <<now, sa, secrets, pods, serial, ext, r1, r1Queue, r1Timer, evictions>>
    /\ \/ /\ Fault
          /\ r2' = R2Idle
          /\ r2Queue' = TRUE
       \/ /\ ~sa.exists
          /\ r2' = R2Idle
          /\ r2Queue' = FALSE
          /\ UNCHANGED faults
       \/ /\ sa.exists
          /\ r2' = [R2Idle EXCEPT !.pc = "secret", !.sa = sa]
          /\ r2Queue' = FALSE
          /\ UNCHANGED faults

\* getProvisionedImagePullSecret
R2GetSecret ==
    /\ r2.pc = "secret"
    /\ UNCHANGED <<now, sa, secrets, pods, serial, ext, r1, r1Queue, r1Timer, r2Timer,
                   evictions>>
    /\ LET key == secretName(r2.sa) IN
       \/ /\ Len(r2.sa.ips) = 0 \/ key \notin DOMAIN secrets
          /\ r2' = R2Idle
          /\ UNCHANGED <<r2Queue, faults>>
       \/ /\ Len(r2.sa.ips) # 0
          /\ Fault
          /\ r2' = R2Idle
          /\ r2Queue' = TRUE
       \/ /\ Len(r2.sa.ips) # 0
          /\ key \in DOMAIN secrets
          /\ r2' = [r2 EXCEPT !.pc = "list", !.secret = secrets[key].name]
          /\ UNCHANGED <<r2Queue, faults>>

\* listPodsToEvict
R2List ==
    /\ r2.pc = "list"
    /\ UNCHANGED <<now, sa, secrets, pods, serial, ext, r1, r1Queue, r1Timer, evictions>>
    /\ \/ /\ Fault
          /\ r2' = R2Idle
          /\ r2Queue' = TRUE
          /\ UNCHANGED r2Timer
       \/ /\ podsToEvict(r2.secret) = {}
          /\ r2' = R2Idle
          /\ r2Timer' = (r2Timer \/ podsToRequeue(r2.secret))
          /\ UNCHANGED <<r2Queue, faults>>
       \/ /\ podsToEvict(r2.secret) # {}
          /\ r2' = [r2 EXCEPT !.pc = "evict", !.left = podsToEvict(r2.secret),
                              !.requeue = podsToRequeue(r2.secret)]
          /\ UNCHANGED <<r2Queue, r2Timer, faults>>

\* an eviction loop that returns at the first error that is not a refusal
R2EvictStopping ==
    /\ r2.pc = "evict"
    /\ UNCHANGED <<now, sa, secrets, serial, ext, r1, r1Queue, r1Timer, r2Queue, r2Timer>>
    /\ \E p \in r2.left :
         LET next == IF r2.left = {p} THEN "finish" ELSE "evict" IN
         \/ /\ pods[p].state = "present"
            /\ pods' = [pods EXCEPT ![p].state = "gone"]
            /\ evictions' = evictions \cup {Eviction(p)}
            /\ r2' = [r2 EXCEPT !.left = @ \ {p}, !.pc = next,
                                !.log = Append(@, Met(p, "evicted"))]
            /\ UNCHANGED faults
         \/ /\ pods[p].state = "present"
            /\ Fault
            /\ evictions' = evictions \cup {Eviction(p)}
            /\ r2' = [r2 EXCEPT !.left = @ \ {p}, !.pc = next, !.requeue = TRUE,
                                !.log = Append(@, Met(p, "refused"))]
            /\ UNCHANGED pods
         \/ /\ Fault
            /\ evictions' = evictions \cup {Eviction(p)}
            /\ r2' = [r2 EXCEPT !.left = @ \ {p}, !.pc = "finish", !.rerr = p,
                                !.log = Append(@, Met(p, "failed"))]
            /\ UNCHANGED pods

\* the eviction of the next target: done, refused for a PodDisruptionBudget
\* (429), or failed otherwise
R2Evict ==
    /\ r2.pc = "evict"
    /\ UNCHANGED <<now, sa, secrets, serial, ext, r1, r1Queue, r1Timer, r2Queue, r2Timer>>
    /\ \E p \in r2.left :
         LET next == IF r2.left = {p} THEN "finish" ELSE "evict" IN
         \/ /\ pods[p].state = "present"
            /\ pods' = [pods EXCEPT ![p].state = "gone"]
            /\ evictions' = evictions \cup {Eviction(p)}
            /\ r2' = [r2 EXCEPT !.left = @ \ {p}, !.pc = next,
                                !.log = Append(@, Met(p, "evicted"))]
            /\ UNCHANGED faults
         \/ /\ pods[p].state = "present"
            /\ Fault
            /\ evictions' = evictions \cup {Eviction(p)}
            /\ r2' = [r2 EXCEPT !.left = @ \ {p}, !.pc = next, !.requeue = TRUE,
                                !.log = Append(@, Met(p, "refused"))]
            /\ UNCHANGED pods
         \/ /\ Fault
            /\ evictions' = evictions \cup {Eviction(p)}
            /\ r2' = [r2 EXCEPT !.left = @ \ {p}, !.pc = next, !.rerr = p,
                                !.log = Append(@, Met(p, "failed"))]
            /\ UNCHANGED pods

\* a return that clears the ServiceAccount's list on the way out
R2FinishDetaching ==
    /\ r2.pc = "finish"
    /\ r2' = R2Idle
    /\ r2Queue' = (r2Queue \/ r2.rerr # 0)
    /\ r2Timer' = (r2Timer \/ (r2.rerr = 0 /\ r2.requeue))
    /\ sa' = [sa EXCEPT !.ips = <<>>]
    /\ UNCHANGED <<faults, now, secrets, pods, serial, ext, r1, r1Queue, r1Timer, evictions>>

\* a return that hands a refused eviction to the runtime as an error
R2FinishFailing ==
    /\ r2.pc = "finish"
    /\ r2' = R2Idle
    /\ r2Queue' = (r2Queue \/ r2.rerr # 0 \/ r2.requeue)
    /\ r2Timer' = r2Timer
    /\ UNCHANGED <<faults, now, sa, secrets, pods, serial, ext, r1, r1Queue, r1Timer, evictions>>

\* the return of Reconcile after the evictions: an error is retried by the
\* runtime, else a RequeueAfter is a delayed re-add
R2Finish ==
    /\ r2.pc = "finish"
    /\ r2' = R2Idle
    /\ r2Queue' = (r2Queue \/ r2.rerr # 0)
    /\ r2Timer' = (r2Timer \/ (r2.rerr = 0 /\ r2.requeue))
    /\ UNCHANGED <<faults, now, sa, secrets, pods, serial, ext, r1, r1Queue, r1Timer, evictions>>

(***************************************************************************)
(* The other actors: operators, the kubelet, the clock.                    *)
(***************************************************************************)
\* a static image pull secret an operator keeps: no label, no expires-at
StaticSecret(name) ==
    [ name |-> name, uid |-> SecretUid(name), label |-> "", expiresAt |-> NoExpiresAt,
      owner |-> "", type |-> "kubernetes.io/dockerconfigjson",
      data |-> [registry |-> "static.example", username |-> "operator",
                password |-> AccessToken(0, "")] ]

\* a Secret carrying the principal's label that the controller did not name
StraySecret(name) == [StaticSecret(name) EXCEPT !.label = SAName]

\* no pass is in flight and R1 has nothing to do now
Quiet ==
    /\ r1.pc = "idle" /\ r2.pc = "idle"
    /\ ~r1Queue /\ ~Due(r1Timer)

\* an operator replaces the principal's annotations
ExtAnnotate ==
    /\ ext < MaxExt
    /\ sa.exists /\ ~sa.deleting
    /\ Quiet
    /\ \E ann \in Configs \ {sa.ann} :
         LET new == [sa EXCEPT !.ann = ann] IN
         /\ sa' = new
         /\ r1Queue' = Queued1(r1Queue, new)
         /\ r2Queue' = Queued2(r2Queue, new)
    /\ ext' = ext + 1
    /\ UNCHANGED <<faults, now, secrets, pods, serial, r1, r1Timer, r2, r2Timer, evictions>>

\* an operator adds a reference to a static secret to the principal's list
ExtAttach ==
    /\ ext < MaxExt
    /\ sa.exists /\ ~sa.deleting
    /\ ~imagePullSecretAttached(sa, "static")
    /\ Quiet
    /\ LET new == [sa EXCEPT !.ips = Append(@, "static")] IN
         /\ sa' = new
         /\ r1Queue' = Queued1(r1Queue, new)
         /\ r2Queue' = Queued2(r2Queue, new)
    /\ ext' = ext + 1
    /\ UNCHANGED <<faults, now, secrets, pods, serial, r1, r1Timer, r2, r2Timer, evictions>>

\* somebody creates a Secret: a static one, or one labeled for the principal
ExtCreateSecret ==
    /\ ext < MaxExt
    /\ Quiet
    /\ \E s \in {StaticSecret("static"), StraySecret("stray")} :
         /\ s.name \notin DOMAIN secrets
         /\ secrets' = (s.name :> s) @@ secrets
    /\ ext' = ext + 1
    /\ UNCHANGED <<faults, now, sa, pods, serial, r1, r1Queue, r1Timer, r2, r2Queue, r2Timer, evictions>>

\* a Pod using the ServiceAccount is admitted: it is given the ServiceAccount's
\* imagePullSecrets, and the kubelet reports a status for it
ExtCreatePod ==
    /\ ext < MaxExt
    /\ sa.exists
    /\ Quiet
    /\ \E p \in PodIds, st \in PodStatuses :
         /\ pods[p].state = "absent"
         /\ \A q \in PodIds : q < p => pods[q].state # "absent"
         /\ pods' = [pods EXCEPT ![p] = [NoPod EXCEPT !.state = "present", !.ips = sa.ips,
                                                      !.status = st]]
    /\ ext' = ext + 1
    /\ UNCHANGED <<faults, now, sa, secrets, serial, r1, r1Queue, r1Timer, r2, r2Queue, r2Timer,
                   evictions>>

\* the ServiceAccount is deleted: it stays with a deletion timestamp while a
\* finalizer holds it, or goes, and the garbage collector takes what it owns
ExtDeleteSA ==
    /\ ext < MaxExt
    /\ sa.exists
    /\ Quiet
    /\ \/ /\ ~sa.deleting
          /\ sa' = [sa EXCEPT !.deleting = TRUE]
          /\ UNCHANGED secrets
       \/ /\ sa' = [sa EXCEPT !.exists = FALSE]
          /\ secrets' = [n \in {m \in DOMAIN secrets : secrets[m].owner # sa.uid}
                           |-> secrets[n]]
    /\ r1Queue' = TRUE
    /\ ext' = ext + 1
    /\ UNCHANGED <<faults, now, pods, serial, r1, r1Timer, r2, r2Queue, r2Timer, evictions>>

\* the informers' periodic resync hands the ServiceAccount to the watches again,
\* whatever the reconcilers are doing
Resync ==
    /\ sa.exists
    /\ ~r1Queue \/ (hasConfig(sa) /\ ~r2Queue)
    /\ r1Queue' = TRUE
    /\ r2Queue' = (r2Queue \/ hasConfig(sa))
    /\ UNCHANGED <<faults, now, sa, secrets, pods, serial, ext, r1, r1Timer, r2, r2Timer, evictions>>

\* time passes, a unit at a time, once the queues are served
Tick ==
    /\ now < MaxTime
    /\ Quiet
    /\ now' = now + 1
    /\ UNCHANGED <<faults, sa, secrets, pods, serial, ext, r1, r1Queue, r1Timer, r2, r2Queue,
                   r2Timer, evictions>>

(***************************************************************************)
(* The system.                                                             *)
(***************************************************************************)
Init ==
    /\ now = 1
    /\ \E ips \in {<<>>, <<"static">>}, ann \in {NoAnnotations, GoogleTwo} :
         sa = [EmptySA EXCEPT !.uid = SAUid, !.exists = TRUE, !.ips = ips, !.ann = ann]
    /\ secrets = <<>>
    /\ pods = [p \in PodIds |-> NoPod]
    /\ serial = 0
    /\ ext = 0
    /\ faults = 0
    /\ r1 = R1Idle
    /\ r1Queue = TRUE
    /\ r1Timer = ZeroTime
    /\ r2 = R2Idle
    /\ r2Queue = FALSE
    /\ r2Timer = FALSE
    /\ evictions = {}

\* the provisioning reconciler, the operators and the clock
Next ==
    \/ R1Start \/ R1Decide \/ R1Generate \/ R1Ensure \/ R1Attach
    \/ R1List \/ R1Detach \/ R1Delete \/ R1Finish
    \/ ExtAnnotate \/ ExtAttach \/ ExtCreateSecret \/ ExtDeleteSA
    \/ Resync \/ Tick

Spec == Init /\ [][Next]_vars

\* both reconcilers and the Pods, at one instant of the clock
NextEvict ==
    \/ R1Start \/ R1Decide \/ R1Generate \/ R1Ensure \/ R1Attach
    \/ R1List \/ R1Detach \/ R1Delete \/ R1Finish
    \/ R2Start \/ R2GetSecret \/ R2List \/ R2Evict \/ R2Finish
    \/ ExtAnnotate \/ ExtAttach \/ ExtCreatePod
    \/ Resync

SpecEvict == Init /\ [][NextEvict]_vars

\* a step of a pass of R2: at most one of the pass's actions is enabled
R2Pass == R2Start \/ R2GetSecret \/ R2List \/ R2Evict \/ R2Finish

\* the evictor's worker takes a key that is in its queue and carries the pass
\* to its end, and the informers keep resyncing; nothing is asked of R1
Fairness == WF_vars(R2Pass) /\ WF_vars(Resync)

SpecEvictFair == SpecEvict /\ Fairness

\* the controller starts in a cluster where a Pod of the ServiceAccount is
\* already there, admitted with the imagePullSecrets the ServiceAccount had, and
\* pulling or failing to pull its image
InitWorkload ==
    /\ now = 1
    /\ \E ips \in {<<>>, <<"static">>}, ann \in {NoAnnotations, GoogleTwo},
          st \in {StatusFailing, StatusCreating} :
         /\ sa = [EmptySA EXCEPT !.uid = SAUid, !.exists = TRUE, !.ips = ips, !.ann = ann]
         /\ pods = [p \in PodIds |->
                      IF p = 1
                      THEN [NoPod EXCEPT !.state = "present", !.ips = ips, !.status = st]
                      ELSE NoPod]
    /\ secrets = <<>>
    /\ serial = 0
    /\ ext = 0
    /\ faults = 0
    /\ r1 = R1Idle
    /\ r1Queue = TRUE
    /\ r1Timer = ZeroTime
    /\ r2 = R2Idle
    /\ r2Queue = hasConfig(sa)
    /\ r2Timer = FALSE
    /\ evictions = {}

SpecWorkload == InitWorkload /\ [][NextEvict]_vars

\* a step of a pass of R1
R1Pass ==
    \/ R1Start \/ R1Decide \/ R1Generate \/ R1Ensure \/ R1Attach
    \/ R1List \/ R1Detach \/ R1Delete \/ R1Finish

\* R1's worker takes a key that is in its queue, or whose delayed re-add is
\* due, and carries the pass to its return; the informers keep resyncing
SpecFair == Spec /\ WF_vars(R1Pass) /\ WF_vars(Resync)

\* another actor adds the reference to the static secret to the principal's
\* list, or takes it out, whatever the reconcilers are doing
ExtForeign ==
    /\ ext < MaxExt
    /\ sa.exists /\ ~sa.deleting
    /\ LET new == IF imagePullSecretAttached(sa, "static")
                  THEN [sa EXCEPT !.ips = SelectSeq(@, LAMBDA n : n # "static")]
                  ELSE [sa EXCEPT !.ips = Append(@, "static")]
       IN  /\ sa' = new
           /\ r1Queue' = Queued1(r1Queue, new)
           /\ r2Queue' = Queued2(r2Queue, new)
    /\ ext' = ext + 1
    /\ UNCHANGED <<faults, now, secrets, pods, serial, r1, r1Timer, r2, r2Timer, evictions>>

\* somebody deletes a Secret, whatever the reconcilers are doing; R1 does not
\* watch Secrets
ExtDeleteSecret ==
    /\ ext < MaxExt
    /\ \E t \in DOMAIN secrets :
         secrets' = [n \in DOMAIN secrets \ {t} |-> secrets[n]]
    /\ ext' = ext + 1
    /\ UNCHANGED <<faults, now, sa, pods, serial, r1, r1Queue, r1Timer, r2, r2Queue, r2Timer,
                   evictions>>

\* R1 with writers that do not wait for its passes
NextRace ==
    \/ R1Start \/ R1Decide \/ R1Generate \/ R1Ensure \/ R1Attach
    \/ R1List \/ R1Detach \/ R1Delete \/ R1Finish
    \/ ExtAnnotate \/ ExtForeign \/ ExtDeleteSecret

SpecRace == Init /\ [][NextRace]_vars

(***************************************************************************)
(* The helpers of config.go and resolveAccounts over the annotations and   *)
(* names a ServiceAccount can carry.                                       *)
(***************************************************************************)
\* the five configuration keys and a value for each
ConfigKeys == <<annotationKeyRegistry, annotationKeyAudience, annotationKeyAWSRoleARN,
                annotationKeyGoogleWIDP, annotationKeyGoogleSA>>
ConfigValues == <<"9.dkr.ecr.us.amazonaws.com", "aud", "r", "widp", "a">>

\* every way of leaving out a key, setting it to the empty string or to a value
AllAnnotations ==
    { [k \in {ConfigKeys[j] : j \in {i \in DOMAIN ConfigKeys : f[i] # "absent"}} |->
          LET j == CHOOSE i \in DOMAIN ConfigKeys : ConfigKeys[i] = k IN
          IF f[j] = "empty" THEN "" ELSE ConfigValues[j]]
      : f \in [DOMAIN ConfigKeys -> {"absent", "empty", "set"}] }

\* account lists as an operator may write them
AccountLists == {"a,b", ",a", "a,", "a,,b", ","}
ListAnnotations ==
    {(annotationKeyGoogleSA :> l) @@ GoogleOne : l \in AccountLists}
    \cup {(annotationKeyAWSRoleARN :> l) @@ AWSOne : l \in AccountLists}

\* a string of n characters
RECURSIVE Repeat(_, _)
Repeat(c, n) ==
    IF n <= 0 THEN ""
    ELSE LET half == Repeat(c, n \div 2) IN
         IF n % 2 = 0 THEN half \o half ELSE half \o half \o c

\* names and overrides about as long as a Secret's name may be
LongNames ==
    {Repeat("n", DNS1123SubdomainMaxLength - Len("imagepullsecret-") + d) : d \in {-2, -1, 0, 1}}
LongOverrides == {Repeat("o", DNS1123SubdomainMaxLength + d) : d \in {-3, -2, -1, 0, 1}}
\* names about as long that end like an indexed name
SuffixedNames ==
    {Repeat("n", DNS1123SubdomainMaxLength - Len("imagepullsecret-") - Len("-1") + d) \o "-1"
       : d \in {-1, 0, 1}}
NameInputs ==
    {[EmptySA EXCEPT !.name = n, !.ann = GoogleTwo] : n \in LongNames \cup SuffixedNames}
    \cup {[EmptySA EXCEPT !.ann = (annotationKeySecretName :> o) @@ GoogleTwo]
            : o \in LongOverrides}

\* the ServiceAccounts the controller is started with
InputAccounts ==
    {[EmptySA EXCEPT !.ann = ann] : ann \in AllAnnotations \cup ListAnnotations}
    \cup NameInputs

InitInputs ==
    /\ now = 1
    /\ \E in \in InputAccounts, ips \in {<<>>, <<"stray">>} :
         /\ sa = [in EXCEPT !.uid = SAUid, !.exists = TRUE, !.ips = ips]
         /\ secrets = IF ips = <<>> THEN <<>>
                      ELSE ("stray" :> [StraySecret("stray") EXCEPT !.label = in.name])
    /\ pods = [p \in PodIds |-> NoPod]
    /\ serial = 0
    /\ ext = 0
    /\ faults = 0
    /\ r1 = R1Idle
    /\ r1Queue = TRUE
    /\ r1Timer = ZeroTime
    /\ r2 = R2Idle
    /\ r2Queue = FALSE
    /\ r2Timer = FALSE
    /\ evictions = {}

\* R1 reconciles each of them
SpecInputs == InitInputs /\ [][R1Pass]_vars

\* what a Secret found under a managed name may carry as expires-at: nothing,
\* a string that is no RFC 3339 instant, or an instant around the grace period
\* as seen from the start of the clock
ExpiryInputs ==
    {NoExpiresAt, [kind |-> "text"]}
    \cup {FormatRFC3339(Instant(1 + expirationGracePeriod + d, 0)) : d \in {-1, 0, 1}}

\* the controller starts where the Secret of the first account is already
\* there, left by an earlier run or edited since, attached or not, possibly
\* beside a labeled Secret that no account names
InitLeftover ==
    /\ now = 1
    /\ \E e \in ExpiryInputs, attached \in BOOLEAN, stray \in BOOLEAN :
         LET in == [EmptySA EXCEPT !.uid = SAUid, !.exists = TRUE, !.ann = GoogleTwo]
             name == secretNameIndexed(in, 0)
             left == [buildImagePullSecret(in, name, Annotation(in, annotationKeyRegistry),
                                           "oauth2accesstoken",
                                           AccessToken(0, resolveAccounts(in)[1]),
                                           Instant(ZeroTime, 0))
                        EXCEPT !.uid = SecretUid(name), !.expiresAt = e]
         IN  /\ sa = [in EXCEPT !.ips = (IF attached THEN <<name>> ELSE <<>>)
                                        \o (IF stray THEN <<"stray">> ELSE <<>>)]
             /\ secrets = (name :> left)
                           @@ (IF stray THEN "stray" :> StraySecret("stray") ELSE <<>>)
    /\ pods = [p \in PodIds |-> NoPod]
    /\ serial = 0
    /\ ext = 0
    /\ faults = 0
    /\ r1 = R1Idle
    /\ r1Queue = TRUE
    /\ r1Timer = ZeroTime
    /\ r2 = R2Idle
    /\ r2Queue = FALSE
    /\ r2Timer = FALSE
    /\ evictions = {}

\* R1 reconciles what it finds
SpecLeftover == InitLeftover /\ [][R1Pass]_vars

\* the reasons of a waiting container state the kubelet reports ("" for a
\* container that is not waiting)
WaitingReasons == {"", "ErrImagePull", "ImagePullBackOff", "PodInitializing",
                   "ContainerCreating", "CrashLoopBackOff"}

\* the container statuses of a Pod with one container: none yet, or one
ContainerStatuses == {<<>>} \cup {<<r>> : r \in WaitingReasons}

\* Pods of the ServiceAccount with one container and at most one init
\* container, Pending or Running, admitted with or without the secret s
PodInputs(s) ==
    {[state |-> "present", ips |-> ips, initContainers |-> n, containers |-> 1,
      status |-> [phase |-> ph, initStatuses |-> is, statuses |-> cs]]
       : ips \in {<<>>, <<s>>}, n \in {0, 1}, ph \in {"Pending", "Running"},
         is \in ContainerStatuses, cs \in ContainerStatuses}

\* what R2 may find when it starts: the ServiceAccount with its secret
\* provisioned, or with the secret created and not attached yet, or with an
\* operator's entry in the list and no secret, or with an operator's unlabeled
\* Secret under the name the annotations give
ClusterInputs ==
    LET one == [EmptySA EXCEPT !.uid = SAUid, !.exists = TRUE, !.ann = GoogleOne]
        named == [EmptySA EXCEPT !.uid = SAUid, !.exists = TRUE, !.ann = GoogleNamed]
        made == [buildImagePullSecret(one, secretName(one),
                                      Annotation(one, annotationKeyRegistry),
                                      "oauth2accesstoken",
                                      AccessToken(0, resolveAccounts(one)[1]),
                                      Instant(1 + MaxValidity, 0))
                   EXCEPT !.uid = SecretUid(secretName(one))]
    IN  { [sa |-> [one EXCEPT !.ips = <<secretName(one)>>],
           secrets |-> (secretName(one) :> made)],
          [sa |-> one, secrets |-> (secretName(one) :> made)],
          [sa |-> [one EXCEPT !.ips = <<"static">>], secrets |-> <<>>],
          [sa |-> [named EXCEPT !.ips = <<"static">>],
           secrets |-> ("static" :> StaticSecret("static"))] }

\* the evictor starts on such a cluster with two Pods at most; as many calls
\* may fail as there are Pods
InitDrain ==
    /\ now = 1
    /\ \E c \in ClusterInputs :
         /\ sa = c.sa
         /\ secrets = c.secrets
         /\ \E first \in PodInputs(secretName(c.sa)),
               second \in {NoPod, [NoPod EXCEPT !.state = "present", !.status = StatusFailing]} :
              pods = [p \in PodIds |-> IF p = 1 THEN first ELSE IF p = 2 THEN second ELSE NoPod]
    /\ serial = 0
    /\ ext = 0
    /\ faults = MaxFaults - MaxPods
    /\ r1 = R1Idle
    /\ r1Queue = FALSE
    /\ r1Timer = ZeroTime
    /\ r2 = R2Idle
    /\ r2Queue = TRUE
    /\ r2Timer = FALSE
    /\ evictions = {}

\* R2 reconciles what it finds
SpecDrain == InitDrain /\ [][R2Pass]_vars

\* two ServiceAccounts of one namespace whose secret names meet: the first
\* with two accounts beside one that is named like the first one's second
\* secret, or both with the same secret-name override
SharedInputs ==
    { [p |-> [EmptySA EXCEPT !.ann = GoogleTwo],
       q |-> [EmptySA EXCEPT !.name = SAName \o "-1", !.ann = GoogleOne]],
      [p |-> [EmptySA EXCEPT !.ann = GoogleNamed],
       q |-> [EmptySA EXCEPT !.name = "q", !.ann = GoogleNamed]] }

\* the controller has provisioned the second ServiceAccount and now takes the
\* first, which may have a labeled Secret that no account names
InitShared ==
    /\ now = 1
    /\ \E in \in SharedInputs, v \in Validities, stray \in BOOLEAN :
         LET q == [in.q EXCEPT !.uid = "uid-" \o in.q.name, !.exists = TRUE]
             made == [buildImagePullSecret(q, secretName(q),
                                           Annotation(q, annotationKeyRegistry),
                                           "oauth2accesstoken",
                                           AccessToken(0, resolveAccounts(q)[1]),
                                           Instant(now + v, 0))
                        EXCEPT !.uid = SecretUid(secretName(q))]
         IN  /\ sa = [in.p EXCEPT !.uid = SAUid, !.exists = TRUE,
                                  !.ips = IF stray THEN <<"stray">> ELSE <<>>]
             /\ secrets = (secretName(q) :> made)
                           @@ (IF stray THEN "stray" :> StraySecret("stray") ELSE <<>>)
    /\ pods = [p \in PodIds |-> NoPod]
    /\ serial = 0
    /\ ext = 0
    /\ faults = 0
    /\ r1 = R1Idle
    /\ r1Queue = TRUE
    /\ r1Timer = ZeroTime
    /\ r2 = R2Idle
    /\ r2Queue = FALSE
    /\ r2Timer = FALSE
    /\ evictions = {}

\* R1 reconciles the first ServiceAccount
SpecShared == InitShared /\ [][R1Pass]_vars

(***************************************************************************)
(* Properties.                                                             *)
(*                                                                         *)
(* A pass of R1 is observed in the state before its return is handed to    *)
(* the runtime: r1.pc is "finish" after a success and "failed" after an    *)
(* error, r1.start and r1.labeled tell what the pass found, r1.ops what it *)
(* did.  Other actors change the cluster only between passes of R1.        *)
(***************************************************************************)
\* the names a configured principal is to have secrets under, index by index
ExpectedNames(s) == {secretNameIndexed(s, i) : i \in 0..(Len(resolveAccounts(s)) - 1)}

\* number of entries of a list that carry a name
Count(ips, name) == Cardinality({k \in 1..Len(ips) : ips[k] = name})

\* a pass that read the ServiceAccount and is returning success
Succeeded == r1.pc = "finish" /\ r1.sa.exists

\* the calls and events a pass has on record
OpsOf(p) == {p.ops[k] : k \in 1..Len(p.ops)}

C2_AttachedExactlyOnce ==
    /\ \A n \in Range(sa.ips) : Count(sa.ips, n) = 1
    /\ (Succeeded /\ hasConfig(r1.sa)) =>
           \A n \in ExpectedNames(r1.sa) : Count(sa.ips, n) = 1

\* a successful pass that created a secret whose name was in the list already,
\* and patched the list for no account
C2_Witness ==
    /\ Succeeded /\ hasConfig(r1.sa)
    /\ Op("create", "static") \in OpsOf(r1)
    /\ Op("patch-sa", "static") \notin OpsOf(r1)
    /\ ExpectedNames(r1.sa) = {"static"}
    /\ Count(sa.ips, "static") = 1

\* C3. Foreign attachments are preserved: during and after every pass of R1,
\* whatever its outcome, each entry the principal's list had when the pass
\* read it, whose name was not the name of a secret labeled for the principal,
\* is still in the list, and the entries that remain are in the order they had.
C3_ForeignPreserved ==
    r1.pc # "idle" =>
        LET foreign == {n \in Range(r1.start.ips) : n \notin r1.labeled} IN
        /\ SelectSeq(sa.ips, LAMBDA n : n \in foreign)
             = SelectSeq(r1.start.ips, LAMBDA n : n \in foreign)
        /\ SelectSeq(sa.ips, LAMBDA n : n \in Range(r1.start.ips))
             = SelectSeq(r1.start.ips, LAMBDA n : n \in Range(sa.ips))

\* a pass that detached a secret of the principal from a list that holds a
\* foreign entry after managed ones
C3_Witness ==
    /\ r1.pc = "finish"
    /\ Len(sa.ips) < Len(r1.start.ips)
    /\ Len(sa.ips) >= 2
    /\ sa.ips[Len(sa.ips)] = "static"
    /\ "static" \notin r1.labeled

\* C5. Configuration absent: when a pass of R1 returns success for a principal
\* without configuration, no secret is labeled for the principal any more, its
\* list is the list the pass read less the names of the secrets that were
\* labeled for it, and the pass created or patched no secret, asked for no
\* token and called no provider.
C5_ConfigurationAbsent ==
    (Succeeded /\ ~hasConfig(r1.sa)) =>
        /\ LabeledFor(r1.sa.name) = {}
        /\ sa.ips = SelectSeq(r1.start.ips, LAMBDA n : n \notin r1.labeled)
        /\ \A o \in OpsOf(r1) : o.op \notin {"create", "patch", "token", "aws", "google"}

\* a pass without configuration that deleted two secrets, attached ones, and
\* left a foreign entry
C5_Witness ==
    /\ Succeeded /\ ~hasConfig(r1.sa)
    /\ Cardinality(r1.labeled) = 2
    /\ r1.labeled \subseteq Range(r1.start.ips)
    /\ sa.ips = <<"static">>
    /\ LabeledFor(r1.sa.name) = {}

\* a Secret of the namespace that is labeled for the principal
Managed(n) == n \in DOMAIN secrets /\ secrets[n].label = SAName

\* C4. Static secrets are never touched: a step never changes or removes a
\* Secret that does not carry the principal's label, a Secret under an expected
\* name included.
C4_StaticSecretsUntouched ==
    [][\A n \in DOMAIN secrets :
          ~Managed(n) => (n \in DOMAIN secrets' /\ secrets'[n] = secrets[n])]_vars

\* the principal is converged: every expected secret exists, is attached and
\* has an expires-at at least a grace period away, and no other secret is
\* labeled for the principal
Converged ==
    /\ sa.exists /\ ~sa.deleting /\ hasConfig(sa)
    /\ \A n \in ExpectedNames(sa) :
          /\ n \in DOMAIN secrets
          /\ Count(sa.ips, n) > 0
          /\ ParseRFC3339(secrets[n].expiresAt).ok
          /\ ParseRFC3339(secrets[n].expiresAt).t - now >= expirationGracePeriod
    /\ LabeledFor(sa.name) \subseteq ExpectedNames(sa)

\* the calls that write, ask for a token or turn to a provider
WriteOps == {"create", "patch", "delete", "patch-sa", "token", "aws", "google"}

\* C6. No-op reconcile writes nothing: a step of R1 taken while the principal
\* is converged changes no Secret and not the ServiceAccount, obtains no
\* credential, and puts no create, patch, delete, token request or provider
\* call on the pass's record.
C6_NoOpWritesNothing ==
    [][(Converged /\ r1' # r1) =>
          /\ secrets' = secrets /\ sa' = sa /\ serial' = serial
          /\ \A k \in (Len(r1.ops) + 1)..Len(r1'.ops) : r1'.ops[k].op \notin WriteOps]_vars

\* a pass over a converged principal with two accounts got to its end: it
\* looked at both secrets and has nothing else on its record
C6_Witness ==
    /\ Converged /\ Succeeded
    /\ Cardinality(ExpectedNames(sa)) = 2
    /\ r1.ops = <<Op("get", secretNameIndexed(sa, 0)), Op("get", secretNameIndexed(sa, 1)),
                   Op("list", "")>>

\* C7. Refresh liveness: with no call failing and nothing but the reconciler
\* changing the cluster, the clock never passes the expires-at of a secret of a
\* configured principal: the secret is refreshed first, however near the expiry
\* the provider returned is.
C7_RefreshedBeforeExpiry ==
    (ext = 0 /\ faults = 0 /\ sa.exists /\ hasConfig(sa)) =>
        \A n \in ExpectedNames(sa) :
            (Managed(n) /\ ParseRFC3339(secrets[n].expiresAt).ok) =>
                now <= ParseRFC3339(secrets[n].expiresAt).t

\* C8. Eviction gate: no eviction call of R2 is for a Pod whose
\* imagePullSecrets hold the principal's first secret name.
C8_EvictionGate == \A e \in evictions : ~e.hadSecret

\* R2 has evicted a Pod that lacked the secret, the secret being attached
C8_Witness ==
    /\ [hadSecret |-> FALSE, attached |-> TRUE] \in evictions
    /\ \E p \in PodIds : pods[p].state = "gone"

\* the principal's first secret is provisioned: it exists and is in the list
Provisioned ==
    /\ sa.exists /\ hasConfig(sa)
    /\ secretNameIndexed(sa, 0) \in DOMAIN secrets
    /\ Count(sa.ips, secretNameIndexed(sa, 0)) > 0

\* a Pod that is there, lacks the principal's first secret and is failing to
\* pull an image
Stuck(p) ==
    /\ pods[p].state = "present"
    /\ Count(pods[p].ips, secretNameIndexed(sa, 0)) = 0
    /\ pods[p].status = StatusFailing

C10_EvictedOnceAttached == \A e \in evictions : e.attached

\* C11. R2 is a no-op without configuration: a pass of R2 never gets to its
\* eviction calls when the ServiceAccount it loaded has no configuration.
C11_NoEvictionWithoutConfig == r2.pc = "evict" => hasConfig(r2.sa)

\* the secrets labeled for the principal are the expected ones, and each of
\* them is in the principal's list
NamesConverged ==
    LET expected == IF hasConfig(sa) THEN ExpectedNames(sa) ELSE {} IN
    /\ LabeledFor(sa.name) = expected
    /\ \A n \in expected : Count(sa.ips, n) > 0

ProviderOps == {"token", "aws", "google"}

\* the account the pass is at has a secret labeled for the principal, with an
\* expires-at at least a grace period away, whose name is not in the list of
\* the ServiceAccount the pass holds
ReattachOnly ==
    /\ r1.pc \in {"decide", "generate", "ensure", "attach"}
    /\ LET n == secretNameIndexed(r1.sa, r1.i) IN
       /\ Managed(n)
       /\ ParseRFC3339(secrets[n].expiresAt).ok
       /\ ParseRFC3339(secrets[n].expiresAt).t - now >= expirationGracePeriod
       /\ Count(r1.sa.ips, n) = 0

\* C13. Re-attach without regenerating: while the pass is at an account whose
\* secret exists with enough validity and is only missing from the list, no
\* step of the pass changes a Secret, obtains a credential, asks for a token or
\* calls a provider.
C13_ReattachWithoutRegenerating ==
    [][(ReattachOnly /\ r1' # r1) =>
          /\ secrets' = secrets /\ serial' = serial
          /\ \A k \in (Len(r1.ops) + 1)..Len(r1'.ops) : r1'.ops[k].op \notin ProviderOps]_vars

\* the pass has failed while provisioning the account of index r1.i
FailedAtAccount ==
    /\ r1.pc = "failed" /\ r1.sa.exists /\ hasConfig(r1.sa)
    /\ r1.i < Len(resolveAccounts(r1.sa))

\* the names and accounts of the indexes after the one the pass is at
LaterNames ==
    {secretNameIndexed(r1.sa, j) : j \in (r1.i + 1)..(Len(resolveAccounts(r1.sa)) - 1)}
LaterAccounts ==
    {resolveAccounts(r1.sa)[j + 1] : j \in (r1.i + 1)..(Len(resolveAccounts(r1.sa)) - 1)}

\* the calls and events of the cleanup
CleanupOps == {"list", "delete", "DecommissionedImagePullSecret",
               "FailedDecommissioningImagePullSecret"}

\* C14. A per-account failure aborts the pass: a pass that has the failure of
\* a provisioning on record is returning an error; a pass that failed at
\* account k has no call for an account after k and none of the cleanup on
\* record, the secrets of the accounts before k exist and are attached, and
\* its return sets no delayed re-add: the key goes back to the queue.
C14_FailureAbortsPass ==
    [][/\ (r1.sa.exists /\ \E o \in OpsOf(r1) : o.op = "FailedProvisioningImagePullSecret")
             => r1.pc = "failed"
       /\ (FailedAtAccount /\ r1' # r1) =>
             /\ \A o \in OpsOf(r1) :
                   /\ o.op \notin CleanupOps
                   /\ o # Op("patch-sa", "")
                   /\ o.name \notin (LaterNames \ {secretNameIndexed(r1.sa, r1.i)})
                   /\ o.op \in ProviderOps => o.name \notin
                          (LaterAccounts \ {resolveAccounts(r1.sa)[r1.i + 1]})
             /\ \A j \in 0..(r1.i - 1) :
                   /\ secretNameIndexed(r1.sa, j) \in DOMAIN secrets
                   /\ Count(sa.ips, secretNameIndexed(r1.sa, j)) = 1
             /\ r1Timer' = r1Timer /\ r1Queue' /\ r1'.pc = "idle"]_vars

\* the pass has provisioned the first of two accounts and failed to attach the
\* secret it created for the second
C14_Witness ==
    /\ FailedAtAccount /\ r1.i = 1
    /\ Op("create", secretNameIndexed(r1.sa, 0)) \in OpsOf(r1)
    /\ Op("create", secretNameIndexed(r1.sa, 1)) \in OpsOf(r1)
    /\ Op("patch-sa", secretNameIndexed(r1.sa, 1)) \in OpsOf(r1)
    /\ Count(sa.ips, secretNameIndexed(r1.sa, 1)) = 0

\* C15. Expiry monotone-refresh: a step that changes the data of a secret
\* labeled for the principal leaves it with a later expires-at than it had.
C15_ExpiryMonotone ==
    [][\A n \in DOMAIN secrets :
          (Managed(n) /\ n \in DOMAIN secrets' /\ secrets'[n].label = SAName
              /\ secrets'[n].data # secrets[n].data
              /\ ParseRFC3339(secrets[n].expiresAt).ok)
          => /\ ParseRFC3339(secrets'[n].expiresAt).ok
             /\ ParseRFC3339(secrets'[n].expiresAt).t > ParseRFC3339(secrets[n].expiresAt).t]_vars

\* C16. Validity invariant: when the queue of R1 is served, no pass is in
\* flight and no re-add is due, every secret of a configured principal that
\* carries an expires-at has at least a grace period left.
C16_ValidityAtRest ==
    (Quiet /\ sa.exists /\ ~sa.deleting /\ hasConfig(sa)) =>
        \A n \in DOMAIN secrets :
            (Managed(n) /\ ParseRFC3339(secrets[n].expiresAt).ok) =>
                ParseRFC3339(secrets[n].expiresAt).t - now >= expirationGracePeriod

\* an annotation is there and is not the empty string
NonEmpty(s, key) == key \in DOMAIN s.ann /\ s.ann[key] # ""

\* the configuration is present, as the annotations tell
ConfigPresent(s) ==
    /\ NonEmpty(s, annotationKeyRegistry) /\ NonEmpty(s, annotationKeyAudience)
    /\ \/ NonEmpty(s, annotationKeyAWSRoleARN)
       \/ NonEmpty(s, annotationKeyGoogleWIDP) /\ NonEmpty(s, annotationKeyGoogleSA)

\* C17. hasConfig is true exactly when registry and audience are non-empty and
\* either aws-role-arn is non-empty or both Google annotations are, and a pass
\* of R1 provisions only for such a ServiceAccount.
C17_HasConfig ==
    /\ hasConfig(sa) <=> ConfigPresent(sa)
    /\ r1.pc \in {"decide", "generate", "ensure", "attach"} => ConfigPresent(r1.sa)

\* a pass provisions for a ServiceAccount whose aws-role-arn is there but
\* empty, and whose Google annotations are both set
C17_Witness ==
    /\ r1.pc = "generate"
    /\ annotationKeyAWSRoleARN \in DOMAIN r1.sa.ann
    /\ r1.sa.ann[annotationKeyAWSRoleARN] = ""
    /\ ConfigPresent(r1.sa) /\ hasConfig(r1.sa)

\* the indexes the names are looked at for
MaxIndex == 10

\* s ends with suffix
EndsWith(s, suffix) ==
    Len(s) >= Len(suffix) /\ SubSeq(s, Len(s) - Len(suffix) + 1, Len(s)) = suffix

\* C18. Secret names fit the length limit: for every index, the indexed name
\* is at most 253 characters long, and past index 0 it is a prefix of the base
\* name followed by the whole suffix -<i>.
C18_NamesFit ==
    \A i \in 0..MaxIndex :
        LET name == secretNameIndexed(sa, i)
            suffix == "-" \o ToString(i)
        IN  /\ Len(name) <= DNS1123SubdomainMaxLength
            /\ i > 0 =>
                 /\ EndsWith(name, suffix)
                 /\ Prefix(secretName(sa), Len(name) - Len(suffix))
                      = Prefix(name, Len(name) - Len(suffix))

\* C19. Empty tokens are not accounts: the resolved account list holds no
\* empty string, and no pass asks for a token for an empty account.
C19_NoEmptyAccounts ==
    /\ \A k \in 1..Len(resolveAccounts(sa)) : resolveAccounts(sa)[k] # ""
    /\ Op("token", "") \notin OpsOf(r1)

\* an entry of the list that is not R1's: not the name of a secret labeled for
\* the principal, nor a name the pass in flight provisions
Foreign(n) ==
    /\ n \notin LabeledFor(sa.name)
    /\ n \notin (IF hasConfig(r1.sa) THEN ExpectedNames(r1.sa) ELSE {})

\* C20. Concurrent writers are not clobbered: a step of R1 leaves the foreign
\* entries of the list the server holds at that moment as they are, those
\* added or removed since the pass read the ServiceAccount included.
C20_NoClobber ==
    [][r1' # r1 => SelectSeq(sa'.ips, Foreign) = SelectSeq(sa.ips, Foreign)]_vars

\* C21. NotFound mid-pass is success: a Delete of the cleanup that no call
\* failure hits never makes the pass fail or record a failed decommissioning,
\* the Secret having been deleted by somebody else included.
C21_NotFoundIsSuccess ==
    [][(r1.pc = "delete" /\ r1' # r1 /\ faults' = faults) =>
          /\ r1'.pc # "failed"
          /\ \A o \in OpsOf(r1') : o.op # "FailedDecommissioningImagePullSecret"]_vars

\* an eviction step that met a refusal for a disruption budget: a call did not
\* succeed and the pass has no error to return
Refused == r2.pc = "evict" /\ r2' # r2 /\ faults' # faults /\ r2'.rerr = 0

\* C22. Disruption budget is not a failure: an eviction refused for a
\* disruption budget removes no Pod, asks for the delayed requeue and leaves
\* the remaining candidates to be attempted; the pass returns only when every
\* candidate was attempted, and when no other eviction failed it returns no
\* error (the key is not added back at once) and the delayed re-add is set.
C22_DisruptionBudgetNotFailure ==
    [][/\ Refused =>
            /\ pods' = pods
            /\ r2'.requeue
            /\ \E p \in r2.left : r2'.left = r2.left \ {p}
            /\ r2'.left # {} => r2'.pc = "evict"
       /\ (r2.pc = "finish" /\ r2' # r2) =>
            /\ r2.left = {}
            /\ (r2.requeue /\ r2.rerr = 0) => (r2Timer' /\ r2Queue' = r2Queue)]_vars

\* an eviction was refused, nothing but the refusal asked for a requeue, and a
\* candidate is still to be attempted
C22_Witness ==
    /\ r2.pc = "evict" /\ r2.left # {}
    /\ faults = 1 /\ r2.requeue /\ r2.rerr = 0
    /\ ~podsToRequeue(r2.secret)
    /\ \A p \in PodIds : pods[p].state = "present"

\* C23. R2 is read-only on secrets and principals: no step of a pass of R2,
\* whatever its outcome, changes a Secret or the ServiceAccount (its list of
\* imagePullSecrets included); what it changes of the Pods is one Pod that an
\* eviction call of the pass removed.
C23_EvictorReadOnly ==
    [][r2' # r2 =>
          /\ secrets' = secrets
          /\ sa' = sa
          /\ pods' # pods =>
               /\ r2.pc = "evict"
               /\ \E p \in r2.left :
                    /\ pods[p].state = "present"
                    /\ pods' = [pods EXCEPT ![p].state = "gone"]]_vars

\* a pass of R2 that evicted a Pod comes to its return, the ServiceAccount's
\* secret and its reference still there
C23_Witness ==
    /\ r2.pc = "finish"
    /\ \E p \in PodIds : pods[p].state = "gone"
    /\ r2.secret \in DOMAIN secrets
    /\ imagePullSecretAttached(sa, r2.secret)

\* C24. The built secret records its account: the Secret that
\* buildImagePullSecret returned has the name it was given, the label of the
\* ServiceAccount's name, the account the credentials were generated for under
\* principal, the expiry in RFC 3339 under expires-at, the ServiceAccount as its
\* owner by uid, and the type kubernetes.io/dockerconfigjson.
C24_BuiltSecretRecordsAccount ==
    r1.pc = "ensure" =>
        LET built == r1.desired
            account == resolveAccounts(r1.sa)[r1.i + 1]
        IN  /\ built.name = secretNameIndexed(r1.sa, r1.i)
            /\ built.label = r1.sa.name
            /\ built.owner = r1.sa.uid
            /\ built.type = "kubernetes.io/dockerconfigjson"
            /\ built.expiresAt = FormatRFC3339(Instant(r1.newExp, r1.newFrac))
            /\ "principal" \in DOMAIN built
            /\ built.principal = account

\* the four reasons to refresh, read off the cluster and the object of the pass
RefreshRequired(name) ==
    IF name \notin DOMAIN secrets THEN TRUE
    ELSE IF \A k \in 1..Len(r1.sa.ips) : r1.sa.ips[k] # name THEN TRUE
    ELSE IF secrets[name].expiresAt.kind # "rfc3339" THEN TRUE
    ELSE secrets[name].expiresAt.t - now < expirationGracePeriod

\* C25. decide: once the Get has answered, the pass goes on to generate
\* credentials exactly when the Secret is absent, or its name is not in the
\* ServiceAccount's list, or its expires-at is missing or is no RFC 3339
\* instant, or expires-at minus now is below the grace period (strictly: at the
\* grace period exactly the account is skipped); a Get that fails fails the pass.
C25_Decide ==
    [][(r1.pc = "decide" /\ r1' # r1) =>
          IF faults' # faults THEN r1'.pc = "failed"
          ELSE /\ r1'.pc = "generate" <=> RefreshRequired(secretNameIndexed(r1.sa, r1.i))
               /\ r1'.pc # "generate" =>
                    /\ r1'.i = r1.i + 1
                    /\ r1'.ops = Append(r1.ops, Op("get", secretNameIndexed(r1.sa, r1.i)))]_vars

\* the first account's Secret is attached and expires exactly one grace period
\* from now, and the pass went past it with a Get only
C25_Witness ==
    LET name == secretNameIndexed(r1.sa, 0) IN
    /\ r1.pc = "decide" /\ r1.i = 1
    /\ r1.ops = <<Op("get", name)>>
    /\ imagePullSecretAttached(r1.sa, name)
    /\ secrets[name].expiresAt = FormatRFC3339(Instant(now + expirationGracePeriod, 0))

\* the Secret of the account the pass is at exists and is attached, and its
\* expires-at is missing or is no RFC 3339 instant
BadExpiresAt ==
    LET name == secretNameIndexed(r1.sa, r1.i) IN
    /\ name \in DOMAIN secrets
    /\ imagePullSecretAttached(r1.sa, name)
    /\ ~ParseRFC3339(secrets[name].expiresAt).ok

\* C26 as stated. Bad expires-at is recovered locally: a managed Secret whose
\* expires-at is missing or unparseable does not fail the pass by itself, the
\* pass regenerates the credentials, and the expires-at that ensureSecret
\* leaves on the Secret is an RFC 3339 instant equal to the provider's expiry.
C26_BadExpiryRecovered ==
    [][/\ (r1.pc = "decide" /\ BadExpiresAt /\ r1' # r1 /\ faults' = faults) =>
             r1'.pc = "generate"
       /\ (r1.pc = "ensure" /\ r1' # r1 /\ faults' = faults) =>
             LET parsed == ParseRFC3339(secrets'[r1.desired.name].expiresAt) IN
             /\ parsed.ok
             /\ Instant(parsed.t, 0) = Instant(r1.newExp, r1.newFrac)]_vars

\* C26, amended: the same, the expires-at being the provider's expiry cut to the
\* whole second.
C26_BadExpiryRecoveredToTheSecond ==
    [][/\ (r1.pc = "decide" /\ BadExpiresAt /\ r1' # r1 /\ faults' = faults) =>
             r1'.pc = "generate"
       /\ (r1.pc = "ensure" /\ r1' # r1 /\ faults' = faults) =>
             LET parsed == ParseRFC3339(secrets'[r1.desired.name].expiresAt) IN
             /\ parsed.ok
             /\ parsed.t = r1.newExp]_vars

\* the first account's Secret was attached with a bad expires-at (the decision
\* kept no expiry of it), and the pass has put the regenerated one in its place
C26_Witness ==
    LET name == secretNameIndexed(r1.sa, 0) IN
    /\ r1.pc = "attach" /\ r1.i = 0
    /\ imagePullSecretAttached(r1.start, name)
    /\ IsZero(r1.exp)
    /\ r1.ops = <<Op("get", name), Op("token", "a"), Op("google", "a"), Op("patch", name)>>
    /\ secrets[name].expiresAt = FormatRFC3339(Instant(r1.newExp, r1.newFrac))
    /\ r1.newFrac # 0

\* the earliest expires-at over the Secrets of the accounts of s
MinExpiry(s) ==
    LET ts == {ParseRFC3339(secrets[n].expiresAt).t : n \in ExpectedNames(s)} IN
    CHOOSE m \in ts : \A t \in ts : m <= t

\* C27. Requeue instant: the return of a successful pass that processed at
\* least one account sets the delayed re-add at the earliest expiry over the
\* accounts minus the grace period (an earlier pending re-add stays), and when
\* that instant is not in the future the key is handed to another pass at once;
\* a successful pass with no accounts changes neither the re-add nor the queue.
C27_RequeueInstant ==
    [][(r1.pc = "finish" /\ r1' # r1) =>
          IF r1.sa.exists /\ hasConfig(r1.sa) /\ Len(resolveAccounts(r1.sa)) > 0
          THEN LET at == MinExpiry(r1.sa) - expirationGracePeriod IN
               IF at > now
               THEN r1Timer' # ZeroTime /\ r1Timer' <= at
               ELSE r1Queue' \/ (r1Timer' # ZeroTime /\ r1Timer' <= now)
          ELSE r1Timer' = r1Timer /\ r1Queue' = r1Queue]_vars

\* the account index a call or event on the record of pass p is about; the
\* calls and events of the cleanup come under the number of accounts
Stage(p, o) ==
    LET accounts == resolveAccounts(p.sa)
        N == Len(accounts)
    IN  IF o.op \in ProviderOps
        THEN IF \E j \in 1..N : accounts[j] = o.name
             THEN (CHOOSE j \in 1..N : accounts[j] = o.name) - 1 ELSE N
        ELSE IF o.op \in CleanupOps \/ o.name = "" THEN N
        ELSE IF \E j \in 0..(N - 1) : secretNameIndexed(p.sa, j) = o.name
             THEN CHOOSE j \in 0..(N - 1) : secretNameIndexed(p.sa, j) = o.name
        ELSE N

\* before position k of the record, account j was skipped after its Get, or
\* provisioned: its Provisioned event follows its token request
DoneBefore(p, j, k) ==
    LET name == secretNameIndexed(p.sa, j)
        account == resolveAccounts(p.sa)[j + 1]
    IN  /\ \E g \in 1..(k - 1) : p.ops[g] = Op("get", name)
        /\ \/ \A t \in 1..Len(p.ops) : p.ops[t] # Op("token", account)
           \/ \E t \in 1..(k - 1), e \in 1..(k - 1) :
                /\ t < e
                /\ p.ops[t] = Op("token", account)
                /\ p.ops[e] = Op("ProvisionedImagePullSecret", name)

\* C28. Ordering within a pass: on the record of a pass the account indexes
\* never go back, every call for account i+1 and every call of the cleanup
\* comes after each earlier account was skipped or provisioned to the end (its
\* Provisioned event, emitted after ensure and attach), and while the pass is
\* past account j the Secret of j exists and is in the list.
C28_OrderingWithinPass ==
    (r1.pc # "idle" /\ r1.sa.exists /\ hasConfig(r1.sa)) =>
        /\ \A k, l \in 1..Len(r1.ops) :
              k < l => Stage(r1, r1.ops[k]) <= Stage(r1, r1.ops[l])
        /\ \A k \in 1..Len(r1.ops) :
              \A j \in 0..(Stage(r1, r1.ops[k]) - 1) : DoneBefore(r1, j, k)
        /\ \A j \in 0..(r1.i - 1) :
              /\ secretNameIndexed(r1.sa, j) \in DOMAIN secrets
              /\ imagePullSecretAttached(sa, secretNameIndexed(r1.sa, j))

\* a successful pass provisioned two accounts, one after the other, and then
\* deleted an orphan
C28_Witness ==
    /\ Succeeded
    /\ Len(resolveAccounts(r1.sa)) = 2
    /\ Op("token", "a") \in OpsOf(r1) /\ Op("token", "b") \in OpsOf(r1)
    /\ \E o \in OpsOf(r1) : o.op = "delete"

\* the cleanup targets of the pass that are in a list
AttachedTargets(ips) == {ips[k] : k \in 1..Len(ips)} \cap r1.targets

\* C29. Detach precedes delete, in one patch: the step of the cleanup that
\* changes the ServiceAccount's list takes every target out of it at once,
\* keeps the other entries in their order and deletes nothing; a Delete is
\* issued only after that one patch went through, no target being in the list
\* any more; a detach that fails leaves the list and the Secrets as they were
\* and ends the pass.
C29_DetachPrecedesDelete ==
    [][(r1' # r1 /\ r1.pc \in {"detach", "delete"}) =>
          /\ r1.pc = "detach" =>
               /\ secrets' = secrets
               /\ \A o \in OpsOf(r1) : o.op # "delete" /\ o # Op("patch-sa", "")
               /\ IF r1'.pc = "failed"
                  THEN sa' = sa /\ \A o \in OpsOf(r1') : o.op # "delete"
                  ELSE /\ AttachedTargets(sa'.ips) = {}
                       /\ sa'.ips = SelectSeq(sa.ips, LAMBDA n : n \notin r1.targets)
          /\ r1.pc = "delete" =>
               /\ sa' = sa
               /\ AttachedTargets(sa.ips) = {}
               /\ Count(r1.ops, Op("patch-sa", "")) = 1]_vars

\* two orphans that were both in the list are out of it, and neither is
\* deleted yet
C29_Witness ==
    /\ r1.pc = "delete"
    /\ Cardinality(r1.targets) = 2
    /\ AttachedTargets(r1.start.ips) = r1.targets
    /\ AttachedTargets(sa.ips) = {}
    /\ r1.targets \subseteq DOMAIN secrets

\* the Secret under a name exists with an expires-at at least a grace period away
WithinValidity(name) ==
    /\ name \in DOMAIN secrets
    /\ ParseRFC3339(secrets[name].expiresAt).ok
    /\ ParseRFC3339(secrets[name].expiresAt).t - now >= expirationGracePeriod

\* the pass retries one that failed at an account, and is deciding on an account
Retrying == r1.aborted >= 0 /\ r1.pc = "decide"

LastFailed(log) ==
    LET ks == {k \in 1..Len(log) : log[k].result = "failed"} IN
    IF ks = {} THEN 0 ELSE log[CHOOSE k \in ks : \A j \in ks : j <= k].pod

\* the Pods the eviction calls of a log were made for
Attempted(log) == {log[k].pod : k \in 1..Len(log)}

\* C31: an eviction that fails with an error other than a disruption-budget
\* refusal does not stop the pass: every eviction call of a pass is made for
\* one of the candidates that remain and leaves the pass in its loop while
\* candidates remain, whatever the call met, and the pass returns with no
\* candidate left, with the error of the last call that failed so (nil when
\* none did), which the runtime answers by adding the key to the queue again.
C31_ErrorsDoNotStopThePass ==
    [][
        /\ (r2.pc = "evict" /\ r2' # r2) =>
              (\E p \in r2.left :
                 /\ r2'.left = r2.left \ {p}
                 /\ Len(r2'.log) = Len(r2.log) + 1
                 /\ r2'.log[Len(r2'.log)].pod = p
                 /\ r2'.pc = (IF r2'.left = {} THEN "finish" ELSE "evict")
                 /\ r2'.rerr = LastFailed(r2'.log)
                 /\ Attempted(r2'.log) \cap r2'.left = {})
        /\ (r2.pc = "finish" /\ r2' # r2) =>
              (/\ r2.left = {}
               /\ r2.rerr = LastFailed(r2.log)
               /\ r2.rerr # 0 => r2Queue'
               /\ r2.rerr = 0 => (r2Queue' = r2Queue))
    ]_vars

\* a pass whose first eviction failed has gone on to evict the other candidate,
\* and holds the first one's error at its return
C31_Witness ==
    /\ r2.pc = "finish"
    /\ Len(r2.log) = 2
    /\ r2.log[1].result = "failed"
    /\ r2.log[2].result = "evicted"
    /\ r2.rerr = r2.log[1].pod

\* the Pods of the ServiceAccount that lack the secret a pass of R2 resolved
Lacking(secret) ==
    {p \in PodIds : pods[p].state = "present" /\ ~hasImagePullSecret(pods[p], secret)}

\* C32: a pass of R2 that lists the workloads classifies each one lacking s0:
\* the image-pull-failing ones are its eviction candidates; one that is not
\* failing and may fail later is not a candidate and makes the pass request a
\* requeue after the interval; any other is neither a candidate nor a cause of
\* requeue.
C32_Classification ==
    [][
        (r2.pc = "list" /\ r2' # r2 /\ faults' = faults) =>
           LET failing == {p \in Lacking(r2.secret) : isImagePullFailing(pods[p])}
               later == {p \in Lacking(r2.secret) \ failing : canFailImagePullLater(pods[p])}
           IN  /\ failing = (IF r2'.pc = "evict" THEN r2'.left ELSE {})
               /\ r2'.pc = "evict" => (r2'.requeue = (later # {}))
               /\ r2'.pc = "idle" => (r2Timer' = (r2Timer \/ later # {}))
    ]_vars

\* C33: R2 invokes no eviction unless the ServiceAccount's imagePullSecrets
\* list is non-empty and the Secret named by the first indexed name exists as
\* a managed secret, labeled for the ServiceAccount; an unlabeled Secret of
\* that name does not make the ServiceAccount ready.
C33_ReadinessGate ==
    [][
        (r2.pc = "evict" /\ r2' # r2) =>
           LET s0 == secretNameIndexed(r2.sa, 0) IN
           /\ Len(r2.sa.ips) # 0
           /\ s0 \in DOMAIN secrets
           /\ secrets[s0].label = r2.sa.name
    ]_vars

\* the events of R1
EventOps == {"ProvisionedImagePullSecret", "FailedProvisioningImagePullSecret",
             "DecommissionedImagePullSecret", "FailedDecommissioningImagePullSecret"}

\* how many times a call or event is on a record
Times(ops, o) == Cardinality({k \in 1..Len(ops) : ops[k] = o})

\* the pass wrote the Secret of a name and has the name in the list
WrittenAndAttached(p, n) ==
    /\ Op("create", n) \in OpsOf(p) \/ Op("patch", n) \in OpsOf(p)
    /\ imagePullSecretAttached(p.sa, n)
    /\ Op("FailedProvisioningImagePullSecret", n) \notin OpsOf(p)

\* C34: Provisioned events match writes: a pass of R1 that returns has emitted
\* ProvisionedImagePullSecret exactly once for each secret it created or
\* refreshed and attached, and not for any other: not for a secret it skipped,
\* and not for the one whose provisioning failed, for which it has emitted
\* FailedProvisioningImagePullSecret instead; and a pass over a converged
\* principal, which returns with nothing written, has emitted no event.
C34_ProvisionedEventsMatchWrites ==
    [][
        /\ (r1.pc \in {"finish", "failed"} /\ r1.sa.exists /\ r1' # r1) =>
              /\ \A n \in ExpectedNames(r1.sa) \cup {o.name : o \in OpsOf(r1)} :
                    Times(r1.ops, Op("ProvisionedImagePullSecret", n))
                       = (IF WrittenAndAttached(r1, n) THEN 1 ELSE 0)
              /\ FailedAtAccount =>
                    Op("FailedProvisioningImagePullSecret", secretNameIndexed(r1.sa, r1.i))
                       \in OpsOf(r1)
        /\ (r1.pc = "finish" /\ Converged /\ r1' # r1
               /\ \A o \in OpsOf(r1) : o.op \notin WriteOps) =>
              \A o \in OpsOf(r1) : o.op \notin EventOps
    ]_vars

\* the ServiceAccount a pass of R1 asks for is not found, or is found with a
\* deletion timestamp
MissingOrTerminating(s) == ~s.exists \/ s.deleting

\* C35: a missing or terminating principal is a no-op: the pass of R1 that
\* finds the ServiceAccount missing or with a deletion timestamp goes to its
\* return at once, with no call and no event on its record, and returns
\* success with no requeue: the key is not added back and no delayed re-add
\* is set; from its start to its return no Secret and not the ServiceAccount
\* is written and no credential is obtained.
C35_MissingOrTerminatingIsNoOp ==
    [][
        /\ (r1.pc = "idle" /\ r1' # r1 /\ faults' = faults /\ MissingOrTerminating(sa)) =>
              /\ r1'.pc = "finish"
              /\ r1'.ops = <<>>
              /\ r1'.start = sa
              /\ secrets' = secrets /\ sa' = sa /\ serial' = serial
        /\ (r1.pc # "idle" /\ r1.pc # "failed" /\ r1' # r1 /\ MissingOrTerminating(r1.start)) =>
              /\ r1.pc = "finish"
              /\ r1.ops = <<>>
              /\ r1'.pc = "idle"
              /\ r1Queue' = r1Queue
              /\ r1Timer' = r1Timer
              /\ secrets' = secrets /\ sa' = sa /\ serial' = serial
    ]_vars

\* a pass has found the ServiceAccount with a deletion timestamp, a Secret
\* labeled for it still there, and is about to return
C35_Witness ==
    /\ r1.pc = "finish"
    /\ r1.start.exists /\ r1.start.deleting /\ hasConfig(r1.start)
    /\ r1.labeled # {}
    /\ r1.ops = <<>>

\* the elements of the comma-separated list an annotation holds
ElementsOf(s, key) ==
    IF Annotation(s, key) = "" THEN {}
    ELSE LET l == Split(Annotation(s, key), ",") IN {l[k] : k \in 1..Len(l)}

\* C36: provider and account list agree: whatever annotations with hasConfig
\* the ServiceAccount carries, both providers' account annotations set
\* included, every call a pass of R1 makes to a provider is for an account of
\* that provider's own annotation: the AWS flow for an element of aws-role-arn,
\* the Google flow for an element of googlecloud-service-account-email.
C36_ProviderAndAccountsAgree ==
    (r1.sa.exists /\ hasConfig(r1.sa)) =>
       \A o \in OpsOf(r1) :
          /\ o.op = "aws" => o.name \in ElementsOf(r1.sa, annotationKeyAWSRoleARN)
          /\ o.op = "google" => o.name \in ElementsOf(r1.sa, annotationKeyGoogleSA)

\* C38: indexed names are distinct: for a ServiceAccount with a configuration
\* the names of two different indexes differ, also when the base name is at or
\* near the length limit and is cut to make room for the suffix, so that its
\* accounts have as many expected names as there are accounts.
C38_IndexedNamesDistinct ==
    (r1.sa.exists /\ hasConfig(r1.sa)) =>
       /\ \A i, j \in 0..MaxIndex :
             i # j => secretNameIndexed(r1.sa, i) # secretNameIndexed(r1.sa, j)
       /\ Cardinality(ExpectedNames(r1.sa)) = Len(resolveAccounts(r1.sa))

\* the Secrets labeled for a ServiceAccount other than the one R1 reconciles
LabeledForOther == {n \in DOMAIN secrets : secrets[n].label \notin {"", SAName}}

\* C37: cross-principal isolation: a pass of R1 for a ServiceAccount never
\* patches or deletes a Secret labeled for another ServiceAccount of the
\* namespace, and never turns such a Secret's label or owner into its own,
\* whatever the two names, overrides and numbers of accounts.
C37_CrossPrincipalIsolation ==
    [][\A n \in LabeledForOther : n \in DOMAIN secrets' /\ secrets'[n] = secrets[n]]_vars

\* the user name each provider's credentials go with
UsernameOf(s) == IF providerOf(s) = "aws" THEN "AWS" ELSE "oauth2accesstoken"

\* C39: secrets follow the configuration: when a pass of R1 returns success
\* for a configured ServiceAccount, the Secret of every account index holds
\* credentials generated for the account now at that index, by the provider
\* now selected, under the registry annotation as it is now; a Secret still
\* within validity whose account or registry has changed is regenerated and
\* not skipped.
C39_SecretsFollowConfiguration ==
    (Succeeded /\ hasConfig(r1.sa)) =>
       \A i \in 0..(Len(resolveAccounts(r1.sa)) - 1) :
          LET n == secretNameIndexed(r1.sa, i) IN
          n \in DOMAIN secrets =>
             /\ secrets[n].data.registry = Annotation(r1.sa, annotationKeyRegistry)
             /\ secrets[n].data.username = UsernameOf(r1.sa)
             /\ secrets[n].data.password.account = resolveAccounts(r1.sa)[i + 1]

\* the cleanup of the pass in flight has failed at a delete, after its detach
\* patch, and the pass is returning the error
CleanupFailedAtDelete ==
    /\ r1.pc = "failed" /\ r1.sa.exists
    /\ AbortedAt(r1) = AbortedInCleanup

\* C40: cleanup is retry-safe. A pass whose cleanup failed at a delete after
\* the detach patch has deleted and detached no expected secret, the orphans
\* it has not deleted still carry the label and are what a listing for the
\* cleanup finds, and the key goes back to the queue; every listing of a
\* cleanup takes all the labeled Secrets that are not expected; and a pass
\* that returns success after a cleanup with targets has deleted them all and
\* emitted DecommissionedImagePullSecret once.
C40_CleanupRetrySafe ==
    [][
        /\ (CleanupFailedAtDelete /\ r1' # r1) =>
              /\ r1.left # {}
              /\ r1.left \subseteq {n \in LabeledFor(sa.name) : n \notin namesInUse(sa)}
              /\ r1Queue'
              /\ \A n \in namesInUse(r1.sa) :
                    /\ Op("delete", n) \notin OpsOf(r1)
                    /\ n \in r1.labeled => n \in DOMAIN secrets
                    /\ Count(r1.start.ips, n) > 0 => Count(sa.ips, n) > 0
        /\ (r1.pc = "list" /\ r1' # r1 /\ faults' = faults) =>
              r1'.targets = {n \in LabeledFor(r1.sa.name) : n \notin namesInUse(r1.sa)}
        /\ (r1.pc = "finish" /\ r1.targets # {} /\ r1' # r1) =>
              /\ r1.targets \cap DOMAIN secrets = {}
              /\ \A t \in r1.targets : Op("delete", t) \in OpsOf(r1)
              /\ Times(r1.ops, Op("DecommissionedImagePullSecret", "")) = 1
    ]_vars

\* the pass after one that failed at a delete has found the orphan by its
\* label, out of the ServiceAccount's list already, has deleted it and is
\* returning success with the event
C40_Witness ==
    /\ r1.pc = "finish"
    /\ r1.aborted = AbortedInCleanup
    /\ r1.targets # {}
    /\ \A t \in r1.targets : Count(r1.start.ips, t) = 0 /\ t \in r1.labeled
    /\ r1.targets \cap DOMAIN secrets = {}
    /\ Op("DecommissionedImagePullSecret", "") \in OpsOf(r1)

====
